---- MODULE Spec2Model ----
(***************************************************************************)
(* Model of the geographical kernel nhe.geo (Point, Line, Polygon).        *)
(*                                                                         *)
(* Numbers.  The code works on floats; the model works on a fixed-point    *)
(* grid of integers:                                                        *)
(*   - one unit of longitude or latitude is 1e-5 degrees, which is         *)
(*     LAT_LON_TOLERANCE, so 180 degrees are 18,000,000 units;             *)
(*   - one unit of depth or of length is 1e-3 km, which is                 *)
(*     DEPTH_TOLERANCE.                                                     *)
(* The geodetic solver (pyproj.Geod on a sphere) is modelled on the two    *)
(* families of great circles on which its answers are exact on the grid:   *)
(* the meridians and the equator; for the mesh of a polygon it also steps  *)
(* due east from a point within a few units of the equator or of a pole.   *)
(* One unit of arc is taken as one unit of length (on pyproj's sphere it   *)
(* is 1.112 units, a scale factor that no property below depends on).      *)
(*                                                                         *)
(* Each action is one call of the library with arguments drawn from small  *)
(* sets; the variables hold the call and what it returned or raised.       *)
(***************************************************************************)
EXTENDS Integers, Sequences, FiniteSets

VARIABLES
    op,         \* the operation called last
    in_pts,     \* its point arguments, in order
    in_num,     \* its numeric argument (spacing, index), 0 when it has none
    status,     \* "ok", or the error the call raised
    out_pts,    \* the points of the object or list it returned
    out_flag,   \* its boolean results (comparisons)
    out_poly,   \* the fields of the Polygon it returned
    alt_in,     \* second call of a paired operation: arguments
    alt_status, \* ... its status
    alt_pts,    \* ... its points
    calls,      \* the helpers the constructor called, in order
    out_coords, \* the longitudes and latitudes _get_resampled_coordinates returned
    gens,       \* the frames of the running discretize generators
    after,      \* the points or the polygon a query was called on, as it left them
    out_az,     \* the azimuth the solver gave and the one Point.azimuth returned
    in_step,    \* the distances and the azimuth given to point_at, call by call
    bbs,        \* the disaggregation bounding boxes: of the accumulator, of a task
    bb_log      \* the boxes before the last call, the distances given to each

vars == <<op, in_pts, in_num, status, out_pts, out_flag, out_poly,
          alt_in, alt_status, alt_pts, calls, out_coords, gens, after,
          out_az, in_step, bbs, bb_log>>

-----------------------------------------------------------------------------
(* Constants of the program, in grid units. *)

LAT_LON_TOLERANCE == 1
DEPTH_TOLERANCE == 1
MAX_LONGITUDE == 18000000
MAX_LATITUDE == 9000000
LONGITUDINAL_DISCRETIZATION == 100000

(* Bounds of the model. *)
MaxLinePoints == 4
MaxPairPoints == 4
MaxSpacing == 10
MaxDistance == 20
MaxRingPoints == 4
MaxMesh == 3
MaxGap == 4
MaxEps == 3
MaxYield == 20

-----------------------------------------------------------------------------
(* Values. *)

None == <<>>

OK == "ok"

Abs(x) == IF x < 0 THEN -x ELSE x

Pt(lon, lat, dep) == [longitude |-> lon, latitude |-> lat, depth |-> dep]

(* Point.__init__: the range checks, then the three fields. *)
PointInitStrict(longitude, latitude, depth) ==
    IF longitude <= -MAX_LONGITUDE \/ longitude >= MAX_LONGITUDE
    THEN [error |-> "Longitude outside range", point |-> None]
    ELSE IF latitude <= -MAX_LATITUDE \/ latitude >= MAX_LATITUDE
    THEN [error |-> "Latitude outside range", point |-> None]
    ELSE [error |-> OK, point |-> Pt(longitude, latitude, depth)]

Point__init__(longitude, latitude, depth) ==
    IF longitude < -MAX_LONGITUDE \/ longitude > MAX_LONGITUDE
    THEN [error |-> "Longitude outside range", point |-> None]
    ELSE IF latitude < -MAX_LATITUDE \/ latitude > MAX_LATITUDE
    THEN [error |-> "Latitude outside range", point |-> None]
    ELSE [error |-> OK, point |-> Pt(longitude, latitude, depth)]

(* numpy.allclose(a, b, atol, rtol=0) on two coordinate lists:              *)
(* every |a[i] - b[i]| <= atol + rtol * |b[i]|, with rtol = 0.              *)
allclose(coord1, coord2, atol) ==
    \A i \in 1..Len(coord1) : Abs(coord1[i] - coord2[i]) <= atol

(* Point.__eq__ *)
PointEqStrict(self, other) ==
    IF other = None THEN FALSE
    ELSE IF \E i \in 1..2 :
              Abs(<<self.longitude, self.latitude>>[i]
                  - <<other.longitude, other.latitude>>[i]) >= LAT_LON_TOLERANCE
    THEN FALSE
    ELSE IF ~(Abs(self.depth - other.depth) < DEPTH_TOLERANCE) THEN FALSE
    ELSE TRUE

Point__eq__(self, other) ==
    IF other = None THEN FALSE
    ELSE LET coord1 == <<self.longitude, self.latitude>>
             coord2 == <<other.longitude, other.latitude>>
         IN  IF ~allclose(coord1, coord2, LAT_LON_TOLERANCE) THEN FALSE
             ELSE IF ~(Abs(self.depth - other.depth) <= DEPTH_TOLERANCE) THEN FALSE
             ELSE TRUE

(* Point.__ne__ *)
Point__ne__(self, other) == ~Point__eq__(self, other)

-----------------------------------------------------------------------------
(* The geodetic solver GEOD = pyproj.Geod(ellps='sphere').                  *)

(* PROJ's adjlon: a longitude difference reduced to [-180, 180]. *)
adjlon(dlon) ==
    IF dlon > MAX_LONGITUDE THEN dlon - 2 * MAX_LONGITUDE
    ELSE IF dlon < -MAX_LONGITUDE THEN dlon + 2 * MAX_LONGITUDE
    ELSE dlon

(* The pairs on which GEOD.inv is modelled: two points of one meridian, or *)
(* two points of the equator less than half a turn apart.                   *)
GeodDefined(lon1, lat1, lon2, lat2) ==
    \/ adjlon(lon2 - lon1) = 0
    \/ lat1 = 0 /\ lat2 = 0 /\ Abs(adjlon(lon2 - lon1)) < MAX_LONGITUDE

(* GEOD.inv: forward azimuth in (-180, 180] and distance.  For coincident  *)
(* locations PROJ returns azimuth 0 and distance 0.                         *)
GEOD_inv(lon1, lat1, lon2, lat2) ==
    LET dlam == adjlon(lon2 - lon1)
    IN  IF dlam = 0
        THEN [az |-> IF lat2 >= lat1 THEN 0 ELSE 180, dist |-> Abs(lat2 - lat1)]
        ELSE [az |-> IF dlam > 0 THEN 90 ELSE -90, dist |-> Abs(dlam)]

(* The angle whose tangent is a / b, for 0 <= a <= b and b > 0:             *)
(* 45 t + 15.64 t (1 - t) degrees with t = a / b, which is the arc tangent *)
(* to within a quarter of a degree.                                         *)
arctan_below_one(a, b) ==
    (a * ((MAX_LATITUDE \div 2) * b + 1564000 * (b - a))) \div (b * b)

(* The angle whose tangent is a / b, for a > 0 and b >= 0. *)
arctan(a, b) ==
    IF b = 0 THEN MAX_LATITUDE
    ELSE IF a <= b THEN arctan_below_one(a, b)
    ELSE MAX_LATITUDE - arctan_below_one(b, a)

(* GEOD.fwd.  Along a meridian (azimuth 0 or 180) the latitude moves by    *)
(* dist, and a step that passes a pole comes back up the opposite          *)
(* meridian.  Due east or west (azimuth 90 or 270) the longitude turns by  *)
(* the angle whose tangent is tan(dist) / cos(lat): that is dist itself     *)
(* within a few units of the equator, and the arc tangent of dist over the *)
(* distance to the pole within a few units of a pole; the latitude, which  *)
(* no caller reads after such a step away from the equator, is kept.  The  *)
(* longitude comes back through adjlon, in [-180, 180].                     *)
GEOD_fwd(lon, lat, az, dist) ==
    LET turn == IF Abs(lat) <= MAX_LATITUDE \div 2 THEN dist
                ELSE arctan(dist, MAX_LATITUDE - Abs(lat))
    IN  IF dist = 0 THEN [lon |-> lon, lat |-> lat]
        ELSE IF az = 0
        THEN IF lat + dist > MAX_LATITUDE
             THEN [lon |-> adjlon(lon + MAX_LONGITUDE),
                   lat |-> 2 * MAX_LATITUDE - (lat + dist)]
             ELSE [lon |-> lon, lat |-> lat + dist]
        ELSE IF az = 180
        THEN IF lat - dist < -MAX_LATITUDE
             THEN [lon |-> adjlon(lon + MAX_LONGITUDE),
                   lat |-> -2 * MAX_LATITUDE - (lat - dist)]
             ELSE [lon |-> lon, lat |-> lat - dist]
        ELSE IF az = 90 THEN [lon |-> adjlon(lon + turn), lat |-> lat]
        ELSE [lon |-> adjlon(lon - turn), lat |-> lat]

(* GEOD.npts along the equator: npts points that cut the shorter arc from  *)
(* lon1 to lon2 into npts + 1 equal parts.  A point of the antimeridian    *)
(* comes back as 180 or as -180; seam is the one the solver gives.          *)
GEOD_npts(lon1, lat1, lon2, lat2, npts, seam) ==
    LET dlam == adjlon(lon2 - lon1)
        at(k) == adjlon(lon1 + (k * dlam) \div (npts + 1))
    IN  [k \in 1..npts |->
            [lon |-> IF Abs(at(k)) = MAX_LONGITUDE THEN seam ELSE at(k),
             lat |-> 0]]

(* The arcs on which GEOD.npts is modelled: arcs of the equator shorter    *)
(* than half a turn that the points cut at grid longitudes.                 *)
NptsDefined(lon1, lat1, lon2, lat2, npts) ==
    /\ lat1 = 0 /\ lat2 = 0
    /\ Abs(adjlon(lon2 - lon1)) < MAX_LONGITUDE
    /\ adjlon(lon2 - lon1) % (npts + 1) = 0

-----------------------------------------------------------------------------
(* Point: the methods built on the solver.  Lengths are in units of 1e-3   *)
(* km, the unit the solver is modelled in, so the km/m conversions of the  *)
(* code are the identity here.                                              *)

(* A variant of Point.point_at that takes the increment off the depth. *)
PointAtShallower(self, horizontal_distance, vertical_increment, az) ==
    LET g == GEOD_fwd(self.longitude, self.latitude, az, horizontal_distance)
    IN  Point__init__(g.lon, g.lat, self.depth - vertical_increment)

(* Point.point_at *)
point_at(self, horizontal_distance, vertical_increment, az) ==
    LET g == GEOD_fwd(self.longitude, self.latitude, az, horizontal_distance)
    IN  Point__init__(g.lon, g.lat, self.depth + vertical_increment)

(* An azimuth as the float it is: deg degrees and eps units of 2^-46       *)
(* degree, a quarter of the gap between two floats next to 360.  Every     *)
(* float of [-180, 360] within a few units of a whole degree is one of     *)
(* these.                                                                   *)
Az(deg, eps) == [deg |-> deg, eps |-> eps]

(* forward_azimuth < 0 *)
IsNegative(a) == a.deg < 0 \/ (a.deg = 0 /\ a.eps < 0)

(* The gap between the floats around a, in units of 2^-46 degree: 2^-44    *)
(* degree from 256 up, 2^-45 from 128, and the unit or less below.          *)
FloatGap(a) ==
    IF a.deg > 256 \/ (a.deg = 256 /\ a.eps >= 0) THEN 4
    ELSE IF a.deg > 128 \/ (a.deg = 128 /\ a.eps >= 0) THEN 2
    ELSE 1

(* eps rounded to a multiple of gap, to the nearest and to the even one of *)
(* two equally near, as IEEE 754 rounds a sum.                              *)
RoundToGap(eps, gap) ==
    LET q == eps \div gap
        r == eps - q * gap
    IN  IF 2 * r < gap THEN q * gap
        ELSE IF 2 * r > gap THEN (q + 1) * gap
        ELSE IF q % 2 = 0 THEN q * gap ELSE (q + 1) * gap

(* 360 + forward_azimuth: the float nearest to the sum. *)
Add360(a) ==
    LET sum == Az(360 + a.deg, a.eps)
    IN  Az(sum.deg, RoundToGap(sum.eps, FloatGap(sum)))

(* The return of Point.azimuth on the forward azimuth of the solver. *)
azimuth_of(forward_azimuth) ==
    IF IsNegative(forward_azimuth) THEN Add360(forward_azimuth)
    ELSE forward_azimuth

(* Point.azimuth: a negative forward azimuth has 360 added.  On the great  *)
(* circles of the model the forward azimuth is a whole number of degrees   *)
(* and so is the sum.                                                       *)
azimuth(self, point) ==
    LET forward_azimuth == GEOD_inv(self.longitude, self.latitude,
                                    point.longitude, point.latitude).az
    IN  azimuth_of(Az(forward_azimuth, 0)).deg

(* Point.horizontal_distance *)
horizontal_distance(self, point) ==
    GEOD_inv(self.longitude, self.latitude, point.longitude, point.latitude).dist

(* math.sqrt(a ** 2 + b ** 2) for a, b >= 0, on the perfect squares (the  *)
(* other arguments are not drawn); the root is at most a + b.               *)
IsSquare(a, b) == \E r \in 0..(a + b) : r * r = a * a + b * b

sqrt(a, b) == CHOOSE r \in 0..(a + b) : r * r = a * a + b * b

(* Point.distance *)
distance(self, point) ==
    LET vertical_distance == point.depth - self.depth
        horizontal == horizontal_distance(self, point)
    IN  sqrt(horizontal, Abs(vertical_distance))

(* round(total_distance / distance) of Python 2: to the nearest integer,   *)
(* halves away from zero; both arguments are positive here.                 *)
round(total_distance, dist) == (2 * total_distance + dist) \div (2 * dist)

(* distance * cos(acos(horizontal_distance / total_distance)) *)
horizontal_increment_step(self, point, dist) ==
    (dist * horizontal_distance(self, point)) \div distance(self, point)

(* distance * sin(acos(horizontal_distance / total_distance)), negated     *)
(* when the depth decreases.  The sine of the bearing angle is             *)
(* |vertical distance| / total distance.                                    *)
VerticalStepNeverNegated(self, point, dist) ==
    (dist * Abs(point.depth - self.depth)) \div distance(self, point)

(* A variant that negates the step when the depth increases. *)
VerticalStepNegatedDownward(self, point, dist) ==
    LET step == (dist * Abs(point.depth - self.depth)) \div distance(self, point)
    IN  IF self.depth < point.depth THEN -step ELSE step

vertical_increment_step(self, point, dist) ==
    LET step == (dist * Abs(point.depth - self.depth)) \div distance(self, point)
    IN  IF self.depth > point.depth THEN -step ELSE step

(* The arguments on which every number of equally_spaced_points is exact   *)
(* on the grid: the solver is defined, the total distance is an integer    *)
(* and it divides both steps.                                               *)
Exact(self, point, dist) ==
    /\ GeodDefined(self.longitude, self.latitude, point.longitude, point.latitude)
    /\ LET h == horizontal_distance(self, point)
           v == point.depth - self.depth
       IN  /\ IsSquare(h, Abs(v))
           /\ LET t == sqrt(h, Abs(v))
              IN  t > 0 => (dist * h) % t = 0 /\ (dist * Abs(v)) % t = 0

(* Point.equally_spaced_points.  The division by total_distance raises     *)
(* ZeroDivisionError when the two points are at distance 0 without being   *)
(* equal.                                                                   *)
equally_spaced_points(self, point, dist) ==
    IF Point__eq__(self, point) THEN [error |-> OK, points |-> <<self>>]
    ELSE LET total_distance == distance(self, point)
         IN  IF total_distance = 0
             THEN [error |-> "ZeroDivisionError", points |-> <<>>]
             ELSE LET az == azimuth(self, point)
                      vstep == vertical_increment_step(self, point, dist)
                      hstep == horizontal_increment_step(self, point, dist)
                      locations == round(total_distance, dist) + 1
                      made == [k \in 1..(locations - 1) |->
                                  point_at(self, k * hstep, k * vstep, az)]
                  IN  IF \E k \in 1..(locations - 1) : made[k].error # OK
                      THEN [error |-> made[CHOOSE k \in 1..(locations - 1) :
                                              made[k].error # OK].error,
                            points |-> <<>>]
                      ELSE [error |-> OK,
                            points |-> <<self>> \o
                                [k \in 1..(locations - 1) |-> made[k].point]]

-----------------------------------------------------------------------------
(* nhe.geo._utils: the helpers of the constructors.                         *)

(* clean_points: adjacent duplicates removed, in order; a point is dropped *)
(* when it equals the point kept last.                                      *)
RECURSIVE clean_from(_, _, _)
clean_from(points, i, result) ==
    IF i > Len(points) THEN result
    ELSE IF Point__ne__(points[i], result[Len(result)])
         THEN clean_from(points, i + 1, Append(result, points[i]))
         ELSE clean_from(points, i + 1, result)

clean_points(points) ==
    IF points = <<>> THEN <<>> ELSE clean_from(points, 2, <<points[1]>>)

(* get_longitudinal_extent: the signed angle from lon1 eastward to lon2,   *)
(* in (-180, 180].                                                          *)
get_longitudinal_extent(lon1, lon2) ==
    LET extent == lon2 - lon1
    IN  IF extent > MAX_LONGITUDE THEN extent - 2 * MAX_LONGITUDE
        ELSE IF extent <= -MAX_LONGITUDE THEN extent + 2 * MAX_LONGITUDE
        ELSE extent

(* get_spherical_bounding_box: the highest and the lowest latitude, and    *)
(* the westmost and the eastmost longitude, found with the longitudinal    *)
(* extent so that a shape across the antimeridian has west > east.          *)
RECURSIVE westmost(_, _, _)
westmost(lons, i, west) ==
    IF i > Len(lons) THEN west
    ELSE westmost(lons, i + 1,
                  IF get_longitudinal_extent(lons[i], west) > 0 THEN lons[i] ELSE west)

RECURSIVE eastmost(_, _, _)
eastmost(lons, i, east) ==
    IF i > Len(lons) THEN east
    ELSE eastmost(lons, i + 1,
                  IF get_longitudinal_extent(lons[i], east) < 0 THEN lons[i] ELSE east)

get_spherical_bounding_box(lons, lats) ==
    [west  |-> westmost(lons, 2, lons[1]),
     east  |-> eastmost(lons, 2, lons[1]),
     north |-> CHOOSE m \in {lats[i] : i \in 1..Len(lats)} :
                   \A i \in 1..Len(lats) : lats[i] <= m,
     south |-> CHOOSE m \in {lats[i] : i \in 1..Len(lats)} :
                   \A i \in 1..Len(lats) : m <= lats[i]]

(* The planar projection of a shape a fraction of a degree wide: it is     *)
(* local and keeps the topology of the vertices, and is modelled as the    *)
(* chart of the longitudes counted eastward from the west side of the      *)
(* bounding box and of the latitudes.                                       *)
proj(west, lon, lat) == <<get_longitudinal_extent(west, lon), lat>>

(* The side of c with respect to the line through a and b: 1, -1, or 0.    *)
Orientation(ax, ay, bx, by, cx, cy) ==
    LET cross == (bx - ax) * (cy - ay) - (by - ay) * (cx - ax)
    IN  IF cross > 0 THEN 1 ELSE IF cross < 0 THEN -1 ELSE 0

(* c lies in the bounding box of a and b (on the segment, when collinear)  *)
OnSegment(ax, ay, bx, by, cx, cy) ==
    /\ (IF ax < bx THEN ax ELSE bx) <= cx /\ cx <= (IF ax < bx THEN bx ELSE ax)
    /\ (IF ay < by THEN ay ELSE by) <= cy /\ cy <= (IF ay < by THEN by ELSE ay)

(* The standard planar test: segments ab and cd have a common point.       *)
SegmentsIntersect(ax, ay, bx, by, cx, cy, dx, dy) ==
    LET o1 == Orientation(ax, ay, bx, by, cx, cy)
        o2 == Orientation(ax, ay, bx, by, dx, dy)
        o3 == Orientation(cx, cy, dx, dy, ax, ay)
        o4 == Orientation(cx, cy, dx, dy, bx, by)
    IN  \/ o1 # o2 /\ o3 # o4
        \/ o1 = 0 /\ OnSegment(ax, ay, bx, by, cx, cy)
        \/ o2 = 0 /\ OnSegment(ax, ay, bx, by, dx, dy)
        \/ o3 = 0 /\ OnSegment(cx, cy, dx, dy, ax, ay)
        \/ o4 = 0 /\ OnSegment(cx, cy, dx, dy, bx, by)

(* line_intersects_itself: some pair of non-adjacent segments intersects.  *)
(* Segment i joins vertex i to vertex i + 1; a closed shape has the        *)
(* closing segment from the last vertex to the first, adjacent to the      *)
(* first segment.                                                           *)
line_intersects_itself(lons, lats, closed_shape) ==
    LET n == Len(lons)
        m == IF closed_shape THEN n ELSE n - 1
        nxt(i) == IF i = n THEN 1 ELSE i + 1
        adjacent(i, j) == \/ j - i < 2
                          \/ closed_shape /\ i = 1 /\ j = m
        west == westmost(lons, 2, lons[1])
        xy == [i \in 1..n |-> proj(west, lons[i], lats[i])]
    IN  \E i \in 1..m : \E j \in (i + 1)..m :
            /\ ~adjacent(i, j)
            /\ SegmentsIntersect(xy[i][1], xy[i][2], xy[nxt(i)][1], xy[nxt(i)][2],
                                 xy[j][1], xy[j][2], xy[nxt(j)][1], xy[nxt(j)][2])

-----------------------------------------------------------------------------
(* Line *)

ONE_POINT_NEEDED == "One point needed to create a line!"
LINE_INTERSECTS == "Line intersects itself!"

(* Variants of Line.__init__ with one slip each: the points are not       *)
(* cleaned; two points are asked for; the outcome of the self-intersection *)
(* test is dropped; the test is made only for points of one depth.         *)
LineInitNoClean(points) ==
    IF Len(points) < 1
    THEN [error |-> ONE_POINT_NEEDED, points |-> <<>>, calls |-> <<>>]
    ELSE LET lats == [i \in 1..Len(points) |-> points[i].latitude]
             lons == [i \in 1..Len(points) |-> points[i].longitude]
         IN  IF line_intersects_itself(lons, lats, FALSE)
             THEN [error |-> LINE_INTERSECTS, points |-> <<>>,
                   calls |-> <<"line_intersects_itself">>]
             ELSE [error |-> OK, points |-> points,
                   calls |-> <<"line_intersects_itself">>]

LineInitTwoPointsNeeded(points) ==
    LET cleaned == clean_points(points)
    IN  IF Len(cleaned) < 2
        THEN [error |-> ONE_POINT_NEEDED, points |-> <<>>,
              calls |-> <<"clean_points">>]
        ELSE LET lats == [i \in 1..Len(cleaned) |-> cleaned[i].latitude]
                 lons == [i \in 1..Len(cleaned) |-> cleaned[i].longitude]
             IN  IF line_intersects_itself(lons, lats, FALSE)
                 THEN [error |-> LINE_INTERSECTS, points |-> <<>>,
                       calls |-> <<"clean_points", "line_intersects_itself">>]
                 ELSE [error |-> OK, points |-> cleaned,
                       calls |-> <<"clean_points", "line_intersects_itself">>]

LineInitTestDropped(points) ==
    LET cleaned == clean_points(points)
    IN  IF Len(cleaned) < 1
        THEN [error |-> ONE_POINT_NEEDED, points |-> <<>>,
              calls |-> <<"clean_points">>]
        ELSE [error |-> OK, points |-> cleaned,
              calls |-> <<"clean_points", "line_intersects_itself">>]

LineInitOneDepthOnly(points) ==
    LET cleaned == clean_points(points)
    IN  IF Len(cleaned) < 1
        THEN [error |-> ONE_POINT_NEEDED, points |-> <<>>,
              calls |-> <<"clean_points">>]
        ELSE LET lats == [i \in 1..Len(cleaned) |-> cleaned[i].latitude]
                 lons == [i \in 1..Len(cleaned) |-> cleaned[i].longitude]
             IN  IF /\ line_intersects_itself(lons, lats, FALSE)
                    /\ \A i \in 1..Len(cleaned) : cleaned[i].depth = cleaned[1].depth
                 THEN [error |-> LINE_INTERSECTS, points |-> <<>>,
                       calls |-> <<"clean_points", "line_intersects_itself">>]
                 ELSE [error |-> OK, points |-> cleaned,
                       calls |-> <<"clean_points", "line_intersects_itself">>]

(* Line.__init__ *)
Line__init__(points) ==
    LET cleaned == clean_points(points)
    IN  IF Len(cleaned) < 1
        THEN [error |-> ONE_POINT_NEEDED, points |-> <<>>,
              calls |-> <<"clean_points">>]
        ELSE LET lats == [i \in 1..Len(cleaned) |-> cleaned[i].latitude]
                 lons == [i \in 1..Len(cleaned) |-> cleaned[i].longitude]
             IN  IF line_intersects_itself(lons, lats, FALSE)
                 THEN [error |-> LINE_INTERSECTS, points |-> <<>>,
                       calls |-> <<"clean_points", "line_intersects_itself">>]
                 ELSE [error |-> OK, points |-> cleaned,
                       calls |-> <<"clean_points", "line_intersects_itself">>]

(* Line.__eq__: the equality of the two lists of points, which is the      *)
(* equality of their lengths and of their points in turn.                   *)
Line__eq__(self, other) ==
    /\ Len(self.points) = Len(other.points)
    /\ \A i \in 1..Len(self.points) : Point__eq__(self.points[i], other.points[i])

(* The loop of Line.resample from the point at index i on: the segment    *)
(* from the last resampled point to the point at index i is cut by         *)
(* equally_spaced_points, and its points but the first are appended.  The  *)
(* points of a segment are computed once and bound as a value.  calls is   *)
(* the number of calls of equally_spaced_points made so far.                *)
RECURSIVE resample_from(_, _, _, _)
resample_from(self, i, section_length, resampled_points) ==
    IF i > Len(self.points)
    THEN [error |-> OK, points |-> resampled_points, calls |-> i - 2]
    ELSE CHOOSE result \in
           { IF points.error # OK
             THEN [error |-> points.error, points |-> <<>>, calls |-> i - 1]
             ELSE resample_from(self, i + 1, section_length,
                                resampled_points \o Tail(points.points)) :
               points \in {equally_spaced_points(
                               resampled_points[Len(resampled_points)],
                               self.points[i], section_length)} } : TRUE

(* The list resampled_points of Line.resample at the end of the loop. *)
resampled_points_of(self, section_length) ==
    CHOOSE result \in
      { IF first.error # OK
        THEN [error |-> first.error, points |-> <<>>, calls |-> 1]
        ELSE resample_from(self, 3, section_length, first.points) :
          first \in {equally_spaced_points(self.points[1], self.points[2],
                                           section_length)} } : TRUE

(* A variant of Line.resample whose list of resampled points is the list   *)
(* of the line itself.                                                      *)
ResampleInPlace(self, section_length) ==
    IF Len(self.points) < 2
    THEN [error |-> Line__init__(self.points).error,
          points |-> Line__init__(self.points).points,
          self |-> self,
          calls |-> Line__init__(self.points).calls]
    ELSE LET resampled == resampled_points_of(self, section_length)
             split == [k \in 1..resampled.calls |-> "equally_spaced_points"]
         IN  IF resampled.error # OK
             THEN [error |-> resampled.error, points |-> <<>>, self |-> self,
                   calls |-> split]
             ELSE [error |-> Line__init__(resampled.points).error,
                   points |-> Line__init__(resampled.points).points,
                   self |-> [points |-> resampled.points],
                   calls |-> split \o Line__init__(resampled.points).calls]

(* A variant of Line.resample with no early return: a line of one point   *)
(* is split from its point to its point before it is built again.          *)
ResampleSplitsOnePoint(self, section_length) ==
    LET resampled == IF Len(self.points) < 2
                     THEN [error |-> OK, points |-> self.points, calls |-> 1]
                     ELSE resampled_points_of(self, section_length)
        split == [k \in 1..resampled.calls |-> "equally_spaced_points"]
    IN  IF resampled.error # OK
        THEN [error |-> resampled.error, points |-> <<>>, self |-> self,
              calls |-> split]
        ELSE [error |-> Line__init__(resampled.points).error,
              points |-> Line__init__(resampled.points).points,
              self |-> self,
              calls |-> split \o Line__init__(resampled.points).calls]

(* Line.resample: the error it raises or the points of the Line it         *)
(* returns, the line itself as the call leaves it, and the calls it made.  *)
(* The resampled                                                            *)
(* points are collected in a new list and given to Line(), which cleans    *)
(* and tests them as it does any list of points.                            *)
resample(self, section_length) ==
    IF Len(self.points) < 2
    THEN [error |-> Line__init__(self.points).error,
          points |-> Line__init__(self.points).points,
          self |-> self,
          calls |-> Line__init__(self.points).calls]
    ELSE LET resampled == resampled_points_of(self, section_length)
             split == [k \in 1..resampled.calls |-> "equally_spaced_points"]
         IN  IF resampled.error # OK
             THEN [error |-> resampled.error, points |-> <<>>, self |-> self,
                   calls |-> split]
             ELSE [error |-> Line__init__(resampled.points).error,
                   points |-> Line__init__(resampled.points).points,
                   self |-> self,
                   calls |-> split \o Line__init__(resampled.points).calls]

(* The lines on which every call of equally_spaced_points that             *)
(* Line.resample makes is exact on the grid.                                *)
RECURSIVE ExactFrom(_, _, _, _)
ExactFrom(self, i, section_length, last) ==
    IF i > Len(self.points) THEN TRUE
    ELSE IF ~(Point__eq__(last, self.points[i])
              \/ Exact(last, self.points[i], section_length)) THEN FALSE
    ELSE \A points \in {equally_spaced_points(last, self.points[i], section_length)} :
             IF points.error # OK THEN TRUE
             ELSE \A next \in {points.points[Len(points.points)]} :
                      ExactFrom(self, i + 1, section_length, next)

ResampleExact(self, section_length) ==
    IF Len(self.points) < 2 THEN TRUE
    ELSE ExactFrom(self, 2, section_length, self.points[1])

-----------------------------------------------------------------------------
(* Polygon *)

THREE_VERTICES == "polygon must have at least 3 unique vertices"
PERIMETER_INTERSECTS == "polygon perimeter intersects itself"

NoPolygon == [lons |-> <<>>, lats |-> <<>>, num_points |-> 0]

(* A variant of Polygon.__init__ that tests the open chain of vertices,    *)
(* as Line.__init__ does.                                                   *)
PolygonInitOpenShape(points) ==
    LET cleaned == clean_points(points)
    IN  IF ~(Len(cleaned) >= 3)
        THEN [error |-> THREE_VERTICES, polygon |-> NoPolygon,
              calls |-> <<"clean_points">>]
        ELSE LET lons == [i \in 1..Len(cleaned) |-> cleaned[i].longitude]
                 lats == [i \in 1..Len(cleaned) |-> cleaned[i].latitude]
             IN  IF line_intersects_itself(lons, lats, FALSE)
                 THEN [error |-> PERIMETER_INTERSECTS, polygon |-> NoPolygon,
                       calls |-> <<"clean_points", "line_intersects_itself">>]
                 ELSE [error |-> OK,
                       polygon |-> [lons |-> lons, lats |-> lats,
                                    num_points |-> Len(cleaned)],
                       calls |-> <<"clean_points", "line_intersects_itself">>]

(* A variant of Polygon.__init__ that makes the intersection test before   *)
(* it counts the vertices.                                                  *)
PolygonInitTestFirst(points) ==
    LET cleaned == clean_points(points)
        lons == [i \in 1..Len(cleaned) |-> cleaned[i].longitude]
        lats == [i \in 1..Len(cleaned) |-> cleaned[i].latitude]
    IN  IF line_intersects_itself(lons, lats, TRUE)
        THEN [error |-> PERIMETER_INTERSECTS, polygon |-> NoPolygon,
              calls |-> <<"clean_points", "line_intersects_itself">>]
        ELSE IF ~(Len(cleaned) >= 3)
        THEN [error |-> THREE_VERTICES, polygon |-> NoPolygon,
              calls |-> <<"clean_points", "line_intersects_itself">>]
        ELSE [error |-> OK,
              polygon |-> [lons |-> lons, lats |-> lats,
                           num_points |-> Len(cleaned)],
              calls |-> <<"clean_points", "line_intersects_itself">>]

(* Polygon.__init__ *)
Polygon__init__(points) ==
    LET cleaned == clean_points(points)
    IN  IF ~(Len(cleaned) >= 3)
        THEN [error |-> THREE_VERTICES, polygon |-> NoPolygon,
              calls |-> <<"clean_points">>]
        ELSE LET lons == [i \in 1..Len(cleaned) |-> cleaned[i].longitude]
                 lats == [i \in 1..Len(cleaned) |-> cleaned[i].latitude]
             IN  IF line_intersects_itself(lons, lats, TRUE)
                 THEN [error |-> PERIMETER_INTERSECTS, polygon |-> NoPolygon,
                       calls |-> <<"clean_points", "line_intersects_itself">>]
                 ELSE [error |-> OK,
                       polygon |-> [lons |-> lons, lats |-> lats,
                                    num_points |-> Len(cleaned)],
                       calls |-> <<"clean_points", "line_intersects_itself">>]

(* A variant of the number of points between two vertices: one for every  *)
(* unit of the extent.                                                      *)
EdgeNumPointsPerUnit(self, i) ==
    LET next_point == (i % self.num_points) + 1
        lon_extent == Abs(get_longitudinal_extent(self.lons[i], self.lons[next_point]))
    IN  lon_extent \div LONGITUDINAL_DISCRETIZATION

(* The number of points Polygon._get_resampled_coordinates puts between    *)
(* vertex i and the next: int(lon_extent / LONGITUDINAL_DISCRETIZATION) - 1 *)
edge_num_points(self, i) ==
    LET next_point == (i % self.num_points) + 1
        lon_extent == Abs(get_longitudinal_extent(self.lons[i], self.lons[next_point]))
    IN  (lon_extent \div LONGITUDINAL_DISCRETIZATION) - 1

(* A variant of the loop of _get_resampled_coordinates that appends the    *)
(* longitudes as the solver gives them.                                     *)
RECURSIVE ResampledAsGiven(_, _, _, _)
ResampledAsGiven(self, seam, i, coords) ==
    IF i > self.num_points THEN coords
    ELSE LET next_point == (i % self.num_points) + 1
             lon1 == self.lons[i]
             lat1 == self.lats[i]
             lon2 == self.lons[next_point]
             lat2 == self.lats[next_point]
             num_points == edge_num_points(self, i)
             between == IF num_points > 0
                        THEN GEOD_npts(lon1, lat1, lon2, lat2, num_points, seam)
                        ELSE <<>>
         IN  ResampledAsGiven(self, seam, i + 1,
               [lons |-> coords.lons
                           \o [k \in 1..Len(between) |-> between[k].lon]
                           \o <<lon2>>,
                lats |-> coords.lats
                           \o [k \in 1..Len(between) |-> between[k].lat]
                           \o <<lat2>>])

(* The loop of Polygon._get_resampled_coordinates from vertex i on: the    *)
(* points between vertex i and the next, their longitudes brought back     *)
(* into (-180, 180], then the next vertex as it is.                         *)
RECURSIVE resampled_from(_, _, _, _)
resampled_from(self, seam, i, coords) ==
    IF i > self.num_points THEN coords
    ELSE LET next_point == (i % self.num_points) + 1
             lon1 == self.lons[i]
             lat1 == self.lats[i]
             lon2 == self.lons[next_point]
             lat2 == self.lats[next_point]
             num_points == edge_num_points(self, i)
             between == IF num_points > 0
                        THEN GEOD_npts(lon1, lat1, lon2, lat2, num_points, seam)
                        ELSE <<>>
             clamp(lon) == IF lon <= -MAX_LONGITUDE THEN lon + 2 * MAX_LONGITUDE
                           ELSE IF lon > MAX_LONGITUDE THEN lon - 2 * MAX_LONGITUDE
                           ELSE lon
         IN  resampled_from(self, seam, i + 1,
               [lons |-> coords.lons
                           \o [k \in 1..Len(between) |-> clamp(between[k].lon)]
                           \o <<lon2>>,
                lats |-> coords.lats
                           \o [k \in 1..Len(between) |-> between[k].lat]
                           \o <<lat2>>])

(* A variant of _get_resampled_coordinates that cuts off the last point. *)
ResampledOpenRing(self, seam) ==
    LET coords == resampled_from(self, seam, 1,
                      [lons |-> <<self.lons[1]>>, lats |-> <<self.lats[1]>>])
    IN  [lons |-> SubSeq(coords.lons, 1, Len(coords.lons) - 1),
         lats |-> SubSeq(coords.lats, 1, Len(coords.lats) - 1)]

(* Polygon._get_resampled_coordinates: the ring of the vertices with the   *)
(* longitudinally extended edges cut; the last point repeats the first.    *)
get_resampled_coordinates(self, seam) ==
    resampled_from(self, seam, 1, [lons |-> <<self.lons[1]>>, lats |-> <<self.lats[1]>>])

(* The polygons on which the resampling is modelled. *)
ResampleDefined(self) ==
    \A i \in 1..self.num_points :
        LET next_point == (i % self.num_points) + 1
        IN  edge_num_points(self, i) > 0 =>
                NptsDefined(self.lons[i], self.lats[i],
                            self.lons[next_point], self.lats[next_point],
                            edge_num_points(self, i))

NoCoords == [lons |-> <<>>, lats |-> <<>>]

NoGens == <<>>

(* No receiver and no argument: no query is running. *)
NoEntities == [points |-> <<>>, polygon |-> NoPolygon]

NoAzimuth == [forward |-> Az(0, 0), returned |-> Az(0, 0)]

(* shapely: Polygon.contains(Point) on the projected ring, whose last      *)
(* point repeats the first.  A point of the interior is contained and a    *)
(* point of the exterior is not; for a point of the boundary the answer    *)
(* rests on the rounding of the projection, and edge is the answer the     *)
(* build gives.                                                             *)
on_boundary(ring, x, y) ==
    \E i \in 1..(Len(ring) - 1) :
        /\ Orientation(ring[i][1], ring[i][2], ring[i + 1][1], ring[i + 1][2], x, y) = 0
        /\ OnSegment(ring[i][1], ring[i][2], ring[i + 1][1], ring[i + 1][2], x, y)

(* The half line from (x, y) to the east crosses the edge from a to b. *)
crosses_east(a, b, x, y) ==
    /\ (a[2] > y) # (b[2] > y)
    /\ IF b[2] > a[2]
       THEN (x - a[1]) * (b[2] - a[2]) < (y - a[2]) * (b[1] - a[1])
       ELSE (x - a[1]) * (b[2] - a[2]) > (y - a[2]) * (b[1] - a[1])

contains(ring, x, y, edge) ==
    IF on_boundary(ring, x, y) THEN edge
    ELSE Cardinality({i \in 1..(Len(ring) - 1) :
                         crosses_east(ring[i], ring[i + 1], x, y)}) % 2 = 1

(* Polygon.discretize(mesh_spacing): the call makes a generator and runs   *)
(* none of the body.  The frame of a generator holds its arguments, its    *)
(* local variables, the place where it is suspended and, for the caller,   *)
(* the points it has yielded.                                               *)
discretize(self, mesh_spacing, edge) ==
    [pc |-> "start", self |-> self, mesh_spacing |-> mesh_spacing, edge |-> edge,
     west |-> 0, east |-> 0, north |-> 0, south |-> 0, polygon2d |-> <<>>,
     latitude |-> 0, longitude |-> 0, yielded |-> <<>>]

(* The body of discretize up to its loops: the resampled ring, its         *)
(* bounding box, its projection, then latitude = north.  The ring and the  *)
(* box are computed once and bound as values.                               *)
enter_with(frame, lons, lats) ==
    CHOOSE entered \in
        { [frame EXCEPT
             !.west = box.west, !.east = box.east,
             !.north = box.north, !.south = box.south,
             !.polygon2d = [i \in 1..Len(lons) |-> proj(box.west, lons[i], lats[i])],
             !.latitude = box.north,
             !.pc = "row"] : box \in {get_spherical_bounding_box(lons, lats)} } : TRUE

enter(frame, seam) ==
    CHOOSE entered \in
        { enter_with(frame, coords.lons, coords.lats) :
            coords \in {get_resampled_coordinates(frame.self, seam)} } : TRUE

(* yield: the point goes to the caller, who keeps the first MaxYield        *)
(* points of a mesh.                                                        *)
yield(yielded, point) ==
    IF Len(yielded) < MaxYield THEN Append(yielded, point) ELSE yielded

(* A variant of the body of discretize that yields every point of the      *)
(* scan.                                                                    *)
ResumeYieldingAll(frame, seam) ==
    IF frame.pc = "start"
    THEN enter(frame, seam)
    ELSE IF frame.pc = "row"
    THEN IF frame.latitude > frame.south
         THEN [frame EXCEPT !.longitude = frame.west, !.pc = "col"]
         ELSE [frame EXCEPT !.pc = "done"]
    ELSE IF frame.pc = "col"
    THEN IF get_longitudinal_extent(frame.longitude, frame.east) > 0
         THEN [frame EXCEPT
                 !.yielded = yield(frame.yielded,
                                Point__init__(frame.longitude, frame.latitude, 0).point),
                 !.longitude = GEOD_fwd(frame.longitude, frame.latitude, 90,
                                        frame.mesh_spacing).lon]
         ELSE [frame EXCEPT
                 !.latitude = GEOD_fwd(frame.west, frame.latitude, 180,
                                       frame.mesh_spacing).lat,
                 !.pc = "row"]
    ELSE frame

(* The body of Polygon.discretize, from the place where the generator is   *)
(* suspended to the next test of a loop:                                    *)
(*   "start"  the body up to the loops;                                     *)
(*   "row"    while latitude > south: longitude = west;                     *)
(*   "col"    while the extent from longitude to east is positive: the     *)
(*            point is yielded if the projected polygon contains it, and   *)
(*            the longitude moves east by the mesh spacing; after the      *)
(*            loop the latitude moves south by the mesh spacing, from the  *)
(*            west side;                                                    *)
(*   "done"   the generator is exhausted.                                   *)
resume(frame, seam) ==
    IF frame.pc = "start"
    THEN enter(frame, seam)
    ELSE IF frame.pc = "row"
    THEN IF frame.latitude > frame.south
         THEN [frame EXCEPT !.longitude = frame.west, !.pc = "col"]
         ELSE [frame EXCEPT !.pc = "done"]
    ELSE IF frame.pc = "col"
    THEN IF get_longitudinal_extent(frame.longitude, frame.east) > 0
         THEN LET xy == proj(frame.west, frame.longitude, frame.latitude)
              IN  [frame EXCEPT
                     !.yielded = IF contains(frame.polygon2d, xy[1], xy[2], frame.edge)
                                 THEN yield(frame.yielded,
                                        Point__init__(frame.longitude,
                                                      frame.latitude, 0).point)
                                 ELSE frame.yielded,
                     !.longitude = GEOD_fwd(frame.longitude, frame.latitude, 90,
                                            frame.mesh_spacing).lon]
         ELSE [frame EXCEPT
                 !.latitude = GEOD_fwd(frame.west, frame.latitude, 180,
                                       frame.mesh_spacing).lat,
                 !.pc = "row"]
    ELSE frame

(* A variant of the generators whose loop variables are kept in one place  *)
(* for all of them: only the points yielded belong to one generator.       *)
ResumeSharingLoop(frames, run, seam) ==
    LET frame == resume(frames[run], seam)
    IN  [other \in DOMAIN frames |->
            IF other = run THEN frame
            ELSE [frame EXCEPT !.yielded = frames[other].yielded]]

(* One generator among the running ones is resumed; the others keep their  *)
(* frames.                                                                  *)
resume_one(frames, run, seam) ==
    [frames EXCEPT ![run] = resume(frames[run], seam)]

-----------------------------------------------------------------------------
(* The arguments the calls are drawn from. *)

SeqsUpTo(S, n) == UNION {[1..k -> S] : k \in 0..n}

(* Point(...): coordinates at, inside and just outside the two ranges. *)
RawLongitudes == {-MAX_LONGITUDE - 1, -MAX_LONGITUDE, 0, MAX_LONGITUDE, MAX_LONGITUDE + 1}
RawLatitudes == {-MAX_LATITUDE - 1, -MAX_LATITUDE, 0, MAX_LATITUDE, MAX_LATITUDE + 1}
RawDepths == {-5, 0, 7}

(* ==, !=: points zero, one and two tolerances apart in each coordinate,   *)
(* and the two names of the antimeridian.                                   *)
NearPoints ==
    {Pt(lon, lat, dep) : lon \in {0, 1, 2, MAX_LONGITUDE, -MAX_LONGITUDE},
                         lat \in {0, 1, 2}, dep \in {0, 1, 2}}

(* equally_spaced_points: points of the meridians 0 and 180 = -180, at     *)
(* depths that make 3-4-5 triangles with the latitudes, and points of the  *)
(* equator on both sides of the antimeridian.                               *)
TrackPoints ==
    {Pt(lon, lat, dep) : lon \in {0, MAX_LONGITUDE, -MAX_LONGITUDE},
                         lat \in {0, 1, 3, 6}, dep \in {0, 1, 4, 8}}
    \cup {Pt(lon, 0, dep) : lon \in {3, 6, MAX_LONGITUDE - 3, 3 - MAX_LONGITUDE},
                            dep \in {0, 4, 8}}

Spacings == 1..MaxSpacing

(* Line, Polygon: the corners of a square of side 10, a point of its left  *)
(* side and a point one tolerance from a corner.                            *)
LinePoints ==
    {Pt(0, 0, 0), Pt(1, 0, 0), Pt(0, 10, 0), Pt(10, 10, 0), Pt(0, 5, 0),
     Pt(10, 0, 0)}

(* Line == Line: three points in a chain of tolerances and two far ones. *)
DupPoints ==
    {Pt(0, 0, 0), Pt(1, 0, 0), Pt(2, 0, 0), Pt(0, 10, 0), Pt(10, 10, 0)}

(* Depths: three corners and the point of the left side, at two depths. *)
PairPoints ==
    {Pt(0, 0, 0), Pt(0, 10, 0), Pt(10, 10, 0), Pt(0, 5, 0)}

PairDepths == {0, 5}

(* The depths given to n points: one of the points, or every point, at a   *)
(* depth of PairDepths and the others at depth 0.                          *)
DepthsOf(n) ==
    {[i \in 1..n |-> IF k = 0 \/ i = k THEN d ELSE 0] :
        k \in 0..n, d \in PairDepths}

(* Polygon._get_resampled_coordinates: points of the equator on both sides *)
(* of the antimeridian and on it, under both of its names, and points ten  *)
(* units north of it.                                                       *)
Degree == LONGITUDINAL_DISCRETIZATION

RingPoints ==
    {Pt(-MAX_LONGITUDE, 0, 0), Pt(MAX_LONGITUDE, 0, 0),
     Pt(MAX_LONGITUDE - Degree, 0, 0), Pt(Degree - MAX_LONGITUDE, 0, 0),
     Pt(2 * Degree - MAX_LONGITUDE, 0, 0),
     Pt(-MAX_LONGITUDE, 10, 0),
     Pt(MAX_LONGITUDE - Degree \div 2, 10, 0), Pt(Degree \div 2 - MAX_LONGITUDE, 10, 0)}

Seams == {MAX_LONGITUDE, -MAX_LONGITUDE}

RingsUpTo(n) == UNION {[1..k -> RingPoints] : k \in 3..n}

(* Twice the signed area of the ring of the projected vertices; the rings  *)
(* drawn for the resampling and for the mesh have a non-zero area.          *)
RECURSIVE ShoelaceSum(_, _)
ShoelaceSum(xy, i) ==
    IF i > Len(xy) THEN 0
    ELSE LET j == (i % Len(xy)) + 1
         IN  xy[i][1] * xy[j][2] - xy[j][1] * xy[i][2] + ShoelaceSum(xy, i + 1)

HasArea(self) ==
    LET west == westmost(self.lons, 2, self.lons[1])
        south == CHOOSE m \in {self.lats[i] : i \in 1..self.num_points} :
                     \A i \in 1..self.num_points : m <= self.lats[i]
        xy == [i \in 1..self.num_points |->
                  <<get_longitudinal_extent(west, self.lons[i]), self.lats[i] - south>>]
    IN  ShoelaceSum(xy, 1) # 0

(* Line.resample: three points at equal gaps along the meridian 0, along   *)
(* the equator, and along the equator up to the antimeridian under its     *)
(* name -180; a line with a right corner; a line of one point, a line of   *)
(* two points that are one point to Line(), and a line of two points.       *)
Gaps == 1..MaxGap

ResampleLines ==
    {<<Pt(0, 0, 0), Pt(0, d, 0), Pt(0, 2 * d, 0)>> : d \in Gaps}
    \cup {<<Pt(0, 0, 0), Pt(d, 0, 0), Pt(2 * d, 0, 0)>> : d \in Gaps}
    \cup {<<Pt(MAX_LONGITUDE - 2 * d, 0, 0), Pt(MAX_LONGITUDE - d, 0, 0),
            Pt(-MAX_LONGITUDE, 0, 0)>> : d \in Gaps}
    \cup {<<Pt(d, 0, 0), Pt(0, 0, 0), Pt(0, d, 0)>> : d \in Gaps}
    \cup {<<Pt(0, 0, 0)>>, <<Pt(0, 0, 0), Pt(0, 1, 0)>>,
          <<Pt(0, 0, 0), Pt(0, 3, 0)>>}

(* Polygon.discretize: the polygon with a concave corner whose mesh the    *)
(* tests list, a square across the antimeridian, a polygon with a vertex   *)
(* at the south pole and a rectangle with a side at the south pole; the    *)
(* mesh spacings; and the two generators made from one polygon and one     *)
(* spacing.                                                                 *)
MeshRings ==
    { <<Pt(0, 0, 0), Pt(5, 0, 0), Pt(5, -5, 0), Pt(3, -5, 0), Pt(3, -2, 0),
        Pt(0, -2, 0)>>,
      <<Pt(MAX_LONGITUDE - 2, 3, 0), Pt(1 - MAX_LONGITUDE, 3, 0),
        Pt(1 - MAX_LONGITUDE, 0, 0), Pt(MAX_LONGITUDE - 2, 0, 0)>>,
      <<Pt(2, -MAX_LATITUDE, 0), Pt(1, 2 - MAX_LATITUDE, 0),
        Pt(0, 5 - MAX_LATITUDE, 0), Pt(3, 2 - MAX_LATITUDE, 0)>>,
      <<Pt(0, 4 - MAX_LATITUDE, 0), Pt(3, 4 - MAX_LATITUDE, 0),
        Pt(3, -MAX_LATITUDE, 0), Pt(0, -MAX_LATITUDE, 0)>> }

MeshSpacings == 1..MaxMesh

Runs == {"first", "second"}

(* Point.point_at: points of the equator and next to the north pole, by   *)
(* the meridian 0 and next to the antimeridian, at the surface and below;  *)
(* steps north, east, south and west; increments up and down.               *)
StepPoints ==
    {Pt(lon, lat, dep) : lon \in {0, MAX_LONGITUDE - 2},
                         lat \in {0, MAX_LATITUDE - 2}, dep \in {0, 5}}

Steps ==
    [horizontal_distance : {0, 3}, vertical_increment : {-5, 5},
     azimuth : {0, 90, 180, 270}]

(* Point.azimuth: points of the equator and of the meridians 0 and 180,    *)
(* and, for a destination off these circles, the forward azimuths of the   *)
(* solver: the floats of [-180, 180] within a few units of the eighths of  *)
(* a turn.                                                                  *)
AzimuthPoints ==
    {Pt(0, 0, 0), Pt(0, 3, 0), Pt(0, -3, 0), Pt(3, 0, 0), Pt(-3, 0, 0),
     Pt(MAX_LONGITUDE, 0, 0), Pt(-MAX_LONGITUDE, 3, 0)}

RawAzimuths ==
    {a \in {Az(45 * k, eps) : k \in -4..4, eps \in -MaxEps..MaxEps} :
        /\ a.deg = -180 => a.eps >= 0
        /\ a.deg = 180 => a.eps <= 0
        /\ a.eps % FloatGap(IF IsNegative(a) THEN Az(-a.deg, -a.eps) ELSE a) = 0}

-----------------------------------------------------------------------------
(* openquake.calculators.classical.BoundingBox. A field holding None is    *)
(* the empty sequence, a field holding a number x is <<x>>.                 *)

BoundingBox__init__(lt_model_id, site_id) ==
    [lt_model_id |-> lt_model_id, site_id |-> site_id,
     min_dist |-> None, max_dist |-> None,
     east |-> None, west |-> None, south |-> None, north |-> None]

(* The builtins min and max of a non-empty list of numbers. *)
min(numbers) ==
    CHOOSE m \in {numbers[i] : i \in 1..Len(numbers)} :
        \A i \in 1..Len(numbers) : m <= numbers[i]

max(numbers) ==
    CHOOSE m \in {numbers[i] : i \in 1..Len(numbers)} :
        \A i \in 1..Len(numbers) : numbers[i] <= m

(* A variant that forgets the distances of the box. *)
UpdateReplacingDists(self, dists, lons, lats) ==
    IF dists = <<>> \/ lons = <<>> \/ lats = <<>>
    THEN [error |-> "ValueError", box |-> self]
    ELSE LET bounds == get_spherical_bounding_box(
                 (IF self.west # None THEN self.west \o self.east ELSE <<>>) \o lons,
                 (IF self.south # None THEN self.south \o self.north ELSE <<>>) \o lats)
         IN  [error |-> OK,
              box |-> [self EXCEPT !.min_dist = <<min(dists)>>,
                                   !.max_dist = <<max(dists)>>,
                                   !.west = <<bounds.west>>,
                                   !.east = <<bounds.east>>,
                                   !.north = <<bounds.north>>,
                                   !.south = <<bounds.south>>]]

(* update: the fields of the box are put in front of the data, min and max *)
(* of an empty list raise ValueError, and so does the bounding box of no   *)
(* coordinates, after the distances were stored.                            *)
update(self, dists, lons, lats) ==
    LET dists1 == (IF self.min_dist # None
                   THEN self.min_dist \o self.max_dist ELSE <<>>) \o dists
        lons1 == (IF self.west # None
                  THEN self.west \o self.east ELSE <<>>) \o lons
        lats1 == (IF self.south # None
                  THEN self.south \o self.north ELSE <<>>) \o lats
    IN  IF dists1 = <<>>
        THEN [error |-> "ValueError", box |-> self]
        ELSE LET stored == [self EXCEPT !.min_dist = <<min(dists1)>>,
                                        !.max_dist = <<max(dists1)>>]
             IN  IF lons1 = <<>> \/ lats1 = <<>>
                 THEN [error |-> "ValueError", box |-> stored]
                 ELSE LET bounds == get_spherical_bounding_box(lons1, lats1)
                      IN  [error |-> OK,
                           box |-> [stored EXCEPT !.west = <<bounds.west>>,
                                                  !.east = <<bounds.east>>,
                                                  !.north = <<bounds.north>>,
                                                  !.south = <<bounds.south>>]]

(* __nonzero__: the truth value of a box. *)
BoundingBox__nonzero__(self) ==
    self.min_dist # None /\ self.west # None /\ self.south # None

update_bb(self, bb) ==
    IF BoundingBox__nonzero__(bb)
    THEN update(self, bb.min_dist \o bb.max_dist, bb.west \o bb.east,
                bb.south \o bb.north)
    ELSE [error |-> OK, box |-> self]

(* The box of the accumulator and the box a task sends back for the same   *)
(* logic-tree model and site.                                               *)
Boxes == {"acc", "val"}

NoBoxes == [b \in Boxes |-> BoundingBox__init__(0, 0)]

NoLog == [before |-> NoBoxes, passed |-> [b \in Boxes |-> {}]]

BoxCalls == {"BoundingBox.update", "agg_dicts"}

(* The data of a rupture close to the site, of two ruptures, and no data.  *)
RuptureData ==
    {[dists |-> <<d>>, lons |-> <<place[1]>>, lats |-> <<place[2]>>] :
        d \in {2, 5, 8}, place \in {<<-2, -1>>, <<3, 4>>}}
    \cup {[dists |-> <<5, 2>>, lons |-> <<3, -2>>, lats |-> <<4, -1>>],
          [dists |-> <<>>, lons |-> <<>>, lats |-> <<>>]}

-----------------------------------------------------------------------------
(* The calls. *)

Init ==
    /\ op = "none"
    /\ in_pts = <<>>
    /\ in_num = 0
    /\ status = OK
    /\ out_pts = <<>>
    /\ out_flag = [eq |-> FALSE, ne |-> FALSE]
    /\ out_poly = NoPolygon
    /\ alt_in = <<>>
    /\ alt_status = OK
    /\ alt_pts = <<>>
    /\ calls = <<>>
    /\ out_coords = NoCoords /\ gens = NoGens /\ after = NoEntities
    /\ out_az = NoAzimuth
    /\ in_step = <<>>
    /\ bbs = NoBoxes
    /\ bb_log = NoLog

(* Point(longitude, latitude, depth) *)
NewPoint ==
    /\ op = "none"
    /\ \E longitude \in RawLongitudes, latitude \in RawLatitudes, depth \in RawDepths :
        LET r == Point__init__(longitude, latitude, depth)
        IN  /\ op' = "Point"
            /\ in_pts' = <<Pt(longitude, latitude, depth)>>
            /\ status' = r.error
            /\ out_pts' = IF r.error = OK THEN <<r.point>> ELSE <<>>
            /\ in_num' = 0
            /\ out_flag' = [eq |-> FALSE, ne |-> FALSE]
            /\ out_poly' = NoPolygon
            /\ alt_in' = <<>> /\ alt_status' = OK /\ alt_pts' = <<>>
            /\ calls' = <<>>
            /\ out_coords' = NoCoords /\ gens' = NoGens /\ out_az' = NoAzimuth /\ bbs' = NoBoxes /\ bb_log' = NoLog /\ in_step' = <<>> /\ after' = NoEntities

(* p == q and p != q, q a Point or None *)
ComparePoints ==
    /\ op = "none"
    /\ \E p \in NearPoints, q \in NearPoints \cup {None} :
        /\ op' = "Point.__eq__"
        /\ in_pts' = <<p, q>>
        /\ status' = OK
        /\ out_flag' = [eq |-> Point__eq__(p, q), ne |-> Point__ne__(p, q)]
        /\ out_pts' = <<>>
        /\ in_num' = 0
        /\ out_poly' = NoPolygon
        /\ alt_in' = <<>> /\ alt_status' = OK /\ alt_pts' = <<>>
        /\ calls' = <<>>
        /\ out_coords' = NoCoords /\ gens' = NoGens /\ out_az' = NoAzimuth /\ bbs' = NoBoxes /\ bb_log' = NoLog /\ in_step' = <<>> /\ after' = NoEntities

(* self.equally_spaced_points(point, distance) *)
EquallySpacedPoints ==
    /\ op = "none"
    /\ \E self \in TrackPoints, point \in TrackPoints, dist \in Spacings :
        /\ GeodDefined(self.longitude, self.latitude, point.longitude, point.latitude)
        /\ horizontal_distance(self, point) <= MaxDistance
        /\ Exact(self, point, dist)
        /\ LET r == equally_spaced_points(self, point, dist)
           IN  /\ op' = "equally_spaced_points"
               /\ in_pts' = <<self, point>>
               /\ in_num' = dist
               /\ status' = r.error
               /\ out_pts' = r.points
               /\ out_flag' = [eq |-> FALSE, ne |-> FALSE]
               /\ out_poly' = NoPolygon
               /\ alt_in' = <<>> /\ alt_status' = OK /\ alt_pts' = <<>>
               /\ calls' = <<>>
               /\ out_coords' = NoCoords /\ gens' = NoGens /\ out_az' = NoAzimuth /\ bbs' = NoBoxes /\ bb_log' = NoLog /\ in_step' = <<>>
               /\ after' = [points |-> <<self, point>>, polygon |-> NoPolygon]

(* self.azimuth(point), for a destination on a great circle of the model   *)
(* and for a destination off them, known by the forward azimuth the solver *)
(* gives for it.                                                            *)
AzimuthReturns(points, forward_azimuth) ==
    /\ op' = "Point.azimuth"
    /\ in_pts' = points
    /\ in_num' = 0
    /\ status' = OK
    /\ out_az' = [forward |-> forward_azimuth,
                  returned |-> azimuth_of(forward_azimuth)]
    /\ out_pts' = <<>>
    /\ out_flag' = [eq |-> FALSE, ne |-> FALSE]
    /\ out_poly' = NoPolygon
    /\ alt_in' = <<>> /\ alt_status' = OK /\ alt_pts' = <<>>
    /\ calls' = <<>>
    /\ out_coords' = NoCoords /\ gens' = NoGens /\ after' = NoEntities
    /\ bbs' = NoBoxes /\ bb_log' = NoLog /\ in_step' = <<>>

Azimuth ==
    /\ op = "none"
    /\ \/ \E self \in AzimuthPoints, point \in AzimuthPoints :
            /\ GeodDefined(self.longitude, self.latitude,
                           point.longitude, point.latitude)
            /\ AzimuthReturns(<<self, point>>,
                              Az(GEOD_inv(self.longitude, self.latitude,
                                          point.longitude, point.latitude).az, 0))
       \/ \E self \in AzimuthPoints, forward_azimuth \in RawAzimuths :
            AzimuthReturns(<<self>>, forward_azimuth)

(* self.point_at(...), and the same step from the point above or below    *)
(* self with another vertical increment.                                    *)
PointAt ==
    /\ op = "none"
    /\ \E self \in StepPoints, step \in Steps,
          depth \in {0, 5}, vertical_increment \in {-5, 5} :
        LET other == Pt(self.longitude, self.latitude, depth)
            r == point_at(self, step.horizontal_distance,
                          step.vertical_increment, step.azimuth)
            alt == point_at(other, step.horizontal_distance,
                            vertical_increment, step.azimuth)
        IN  /\ op' = "Point.point_at"
            /\ in_pts' = <<self>>
            /\ bbs' = NoBoxes /\ bb_log' = NoLog /\ in_step' = <<step, [step EXCEPT !.vertical_increment = vertical_increment]>>
            /\ status' = r.error
            /\ out_pts' = IF r.error = OK THEN <<r.point>> ELSE <<>>
            /\ alt_in' = <<other>>
            /\ alt_status' = alt.error
            /\ alt_pts' = IF alt.error = OK THEN <<alt.point>> ELSE <<>>
            /\ in_num' = 0
            /\ out_flag' = [eq |-> FALSE, ne |-> FALSE]
            /\ out_poly' = NoPolygon
            /\ calls' = <<>>
            /\ out_coords' = NoCoords /\ gens' = NoGens /\ after' = NoEntities
            /\ out_az' = NoAzimuth

(* Line(points) *)
NewLine ==
    /\ op = "none"
    /\ \E points \in SeqsUpTo(LinePoints, MaxLinePoints) :
        LET r == Line__init__(points)
        IN  /\ op' = "Line"
            /\ in_pts' = points
            /\ status' = r.error
            /\ out_pts' = r.points
            /\ calls' = r.calls
            /\ out_coords' = NoCoords /\ gens' = NoGens /\ out_az' = NoAzimuth /\ bbs' = NoBoxes /\ bb_log' = NoLog /\ in_step' = <<>> /\ after' = NoEntities
            /\ in_num' = 0
            /\ out_flag' = [eq |-> FALSE, ne |-> FALSE]
            /\ out_poly' = NoPolygon
            /\ alt_in' = <<>> /\ alt_status' = OK /\ alt_pts' = <<>>

(* Line(points) and Line(points with the point at index i repeated), and   *)
(* their comparison                                                         *)
LineWithDuplicate ==
    /\ op = "none"
    /\ \E points \in SeqsUpTo(DupPoints, MaxPairPoints) :
      \E i \in 1..Len(points) :
        LET dup == SubSeq(points, 1, i) \o SubSeq(points, i, Len(points))
            r1 == Line__init__(points)
            r2 == Line__init__(dup)
        IN  /\ op' = "Line.__eq__"
            /\ in_pts' = points
            /\ in_num' = i
            /\ alt_in' = dup
            /\ status' = r1.error
            /\ out_pts' = r1.points
            /\ alt_status' = r2.error
            /\ alt_pts' = r2.points
            /\ out_flag' = [eq |-> r1.error = OK /\ r2.error = OK /\ Line__eq__(r1, r2),
                            ne |-> r1.error = OK /\ r2.error = OK /\ ~Line__eq__(r1, r2)]
            /\ calls' = r1.calls
            /\ out_coords' = NoCoords /\ gens' = NoGens /\ out_az' = NoAzimuth /\ bbs' = NoBoxes /\ bb_log' = NoLog /\ in_step' = <<>> /\ after' = NoEntities
            /\ out_poly' = NoPolygon

(* Line(points) and Line(the same longitudes and latitudes at other       *)
(* depths); the same for Polygon                                            *)
LineWithDepths ==
    /\ op = "none"
    /\ \E points \in SeqsUpTo(PairPoints, MaxPairPoints) :
       \E depths \in DepthsOf(Len(points)) :
        LET other == [i \in 1..Len(points) |->
                         Pt(points[i].longitude, points[i].latitude, depths[i])]
            r1 == Line__init__(points)
            r2 == Line__init__(other)
        IN  /\ op' = "Line (depths)"
            /\ in_pts' = points
            /\ alt_in' = other
            /\ status' = r1.error
            /\ out_pts' = r1.points
            /\ alt_status' = r2.error
            /\ alt_pts' = r2.points
            /\ calls' = r1.calls
            /\ out_coords' = NoCoords /\ gens' = NoGens /\ out_az' = NoAzimuth /\ bbs' = NoBoxes /\ bb_log' = NoLog /\ in_step' = <<>> /\ after' = NoEntities
            /\ in_num' = 0
            /\ out_flag' = [eq |-> FALSE, ne |-> FALSE]
            /\ out_poly' = NoPolygon

PolygonWithDepths ==
    /\ op = "none"
    /\ \E points \in SeqsUpTo(PairPoints, MaxPairPoints) :
       \E depths \in DepthsOf(Len(points)) :
        LET other == [i \in 1..Len(points) |->
                         Pt(points[i].longitude, points[i].latitude, depths[i])]
            r1 == Polygon__init__(points)
            r2 == Polygon__init__(other)
        IN  /\ op' = "Polygon (depths)"
            /\ in_pts' = points
            /\ alt_in' = other
            /\ status' = r1.error
            /\ out_poly' = r1.polygon
            /\ alt_status' = r2.error
            /\ calls' = r1.calls
            /\ out_coords' = NoCoords /\ gens' = NoGens /\ out_az' = NoAzimuth /\ bbs' = NoBoxes /\ bb_log' = NoLog /\ in_step' = <<>> /\ after' = NoEntities
            /\ out_pts' = <<>>
            /\ alt_pts' = <<>>
            /\ in_num' = 0
            /\ out_flag' = [eq |-> FALSE, ne |-> FALSE]

(* Polygon(points) *)
NewPolygon ==
    /\ op = "none"
    /\ \E points \in SeqsUpTo(LinePoints, MaxLinePoints) :
        LET r == Polygon__init__(points)
        IN  /\ op' = "Polygon"
            /\ in_pts' = points
            /\ status' = r.error
            /\ out_poly' = r.polygon
            /\ calls' = r.calls
            /\ out_coords' = NoCoords /\ gens' = NoGens /\ out_az' = NoAzimuth /\ bbs' = NoBoxes /\ bb_log' = NoLog /\ in_step' = <<>> /\ after' = NoEntities
            /\ out_pts' = <<>>
            /\ in_num' = 0
            /\ out_flag' = [eq |-> FALSE, ne |-> FALSE]
            /\ alt_in' = <<>> /\ alt_status' = OK /\ alt_pts' = <<>>

(* Line(points) and Polygon(points) of the same points *)
LineAndPolygon ==
    /\ op = "none"
    /\ \E points \in SeqsUpTo(LinePoints, MaxLinePoints) :
        LET r1 == Line__init__(points)
            r2 == Polygon__init__(points)
        IN  /\ op' = "Line, Polygon"
            /\ in_pts' = points
            /\ alt_in' = points
            /\ status' = r1.error
            /\ out_pts' = r1.points
            /\ alt_status' = r2.error
            /\ out_poly' = r2.polygon
            /\ calls' = r2.calls
            /\ out_coords' = NoCoords /\ gens' = NoGens /\ out_az' = NoAzimuth /\ bbs' = NoBoxes /\ bb_log' = NoLog /\ in_step' = <<>> /\ after' = NoEntities
            /\ alt_pts' = <<>>
            /\ in_num' = 0
            /\ out_flag' = [eq |-> FALSE, ne |-> FALSE]

(* Polygon(points)._get_resampled_coordinates() *)
GetResampledCoordinates ==
    /\ op = "none"
    /\ \E points \in RingsUpTo(MaxRingPoints), seam \in Seams :
        LET r == Polygon__init__(points)
        IN  /\ r.error = OK
            /\ HasArea(r.polygon)
            /\ ResampleDefined(r.polygon)
            /\ op' = "Polygon._get_resampled_coordinates"
            /\ in_pts' = points
            /\ in_num' = seam
            /\ status' = OK
            /\ out_poly' = r.polygon
            /\ out_coords' = get_resampled_coordinates(r.polygon, seam)
            /\ after' = [points |-> <<>>, polygon |-> r.polygon]
            /\ calls' = r.calls
            /\ out_pts' = <<>>
            /\ out_flag' = [eq |-> FALSE, ne |-> FALSE]
            /\ alt_in' = <<>> /\ alt_status' = OK /\ alt_pts' = <<>>
            /\ gens' = NoGens /\ out_az' = NoAzimuth /\ bbs' = NoBoxes /\ bb_log' = NoLog /\ in_step' = <<>>

(* Line(points).resample(section_length) *)
Resample ==
    /\ op = "none"
    /\ \E points \in ResampleLines, section_length \in Spacings :
        LET line == Line__init__(points)
        IN  /\ line.error = OK
            /\ ResampleExact([points |-> line.points], section_length)
            /\ LET r == resample([points |-> line.points], section_length)
               IN  /\ op' = "Line.resample"
                   /\ in_pts' = points
                   /\ in_num' = section_length
                   /\ status' = r.error
                   /\ out_pts' = r.points
                   /\ after' = [points |-> r.self.points, polygon |-> NoPolygon]
                   /\ calls' = r.calls
                   /\ out_flag' = [eq |-> FALSE, ne |-> FALSE]
                   /\ out_poly' = NoPolygon
                   /\ alt_in' = <<>> /\ alt_status' = OK /\ alt_pts' = <<>>
                   /\ out_coords' = NoCoords /\ gens' = NoGens /\ out_az' = NoAzimuth /\ bbs' = NoBoxes /\ bb_log' = NoLog /\ in_step' = <<>>

(* Polygon(points).discretize(mesh_spacing), called twice: two generators. *)
Discretize ==
    /\ op = "none"
    /\ \E points \in MeshRings, mesh_spacing \in MeshSpacings, edge \in BOOLEAN :
        LET r == Polygon__init__(points)
        IN  /\ r.error = OK
            /\ HasArea(r.polygon)
            /\ ResampleDefined(r.polygon)
            /\ op' = "Polygon.discretize"
            /\ in_pts' = points
            /\ in_num' = mesh_spacing
            /\ status' = OK
            /\ out_poly' = r.polygon
            /\ gens' = [run \in Runs |-> discretize(r.polygon, mesh_spacing, edge)]
            /\ out_az' = NoAzimuth /\ bbs' = NoBoxes /\ bb_log' = NoLog /\ in_step' = <<>>
            /\ after' = [points |-> <<>>, polygon |-> r.polygon]
            /\ calls' = r.calls
            /\ out_pts' = <<>>
            /\ out_flag' = [eq |-> FALSE, ne |-> FALSE]
            /\ alt_in' = <<>> /\ alt_status' = OK /\ alt_pts' = <<>>
            /\ out_coords' = NoCoords

(* next() of one of the generators: its body runs to the next test of a    *)
(* loop.                                                                    *)
Resume(run) ==
    /\ op = "Polygon.discretize"
    /\ gens[run].pc # "done"
    /\ \E seam \in Seams :
        /\ gens' = resume_one(gens, run, seam)
        /\ after' = [points |-> <<>>, polygon |-> gens'[run].self]
    /\ UNCHANGED <<op, in_pts, in_num, status, out_pts, out_flag, out_poly,
                   alt_in, alt_status, alt_pts, calls, out_coords, out_az,
                   in_step, bbs, bb_log>>

(* The caller drops the result; the library keeps nothing between calls.   *)
(* A mesh is read to its end.                                               *)
(* hazard_curves_per_trt gives the data of a rupture to a box. *)
Update ==
    /\ op \in {"none"} \cup BoxCalls
    /\ \E b \in Boxes, data \in RuptureData :
        LET r == update(bbs[b], data.dists, data.lons, data.lats)
        IN  /\ op' = "BoundingBox.update"
            /\ status' = r.error
            /\ bbs' = [bbs EXCEPT ![b] = r.box]
            /\ bb_log' = [before |-> bbs,
                          passed |-> [bb_log.passed EXCEPT ![b] =
                              @ \cup {data.dists[i] : i \in 1..Len(data.dists)}]]
    /\ UNCHANGED <<in_pts, in_num, out_pts, out_flag, out_poly, alt_in,
                   alt_status, alt_pts, calls, out_coords, gens, after,
                   out_az, in_step>>

(* agg_dicts merges the box of a task into the box of the accumulator. *)
AggDicts ==
    /\ op \in {"none"} \cup BoxCalls
    /\ LET bb == bbs["val"]
           r == update_bb(bbs["acc"], bb)
       IN  /\ op' = "agg_dicts"
           /\ status' = r.error
           /\ bbs' = [bbs EXCEPT !["acc"] = r.box]
           /\ bb_log' = [before |-> bbs,
                         passed |-> [bb_log.passed EXCEPT !["acc"] =
                             @ \cup (IF BoundingBox__nonzero__(bb)
                                     THEN {bb.min_dist[1], bb.max_dist[1]}
                                     ELSE {})]]
    /\ UNCHANGED <<in_pts, in_num, out_pts, out_flag, out_poly, alt_in,
                   alt_status, alt_pts, calls, out_coords, gens, after,
                   out_az, in_step>>

Return ==
    /\ op # "none"
    /\ op = "Polygon.discretize" => \A run \in Runs : gens[run].pc = "done"
    /\ op' = "none"
    /\ in_pts' = <<>>
    /\ in_num' = 0
    /\ status' = OK
    /\ out_pts' = <<>>
    /\ out_flag' = [eq |-> FALSE, ne |-> FALSE]
    /\ out_poly' = NoPolygon
    /\ alt_in' = <<>>
    /\ alt_status' = OK
    /\ alt_pts' = <<>>
    /\ calls' = <<>>
    /\ out_coords' = NoCoords /\ gens' = NoGens /\ out_az' = NoAzimuth /\ bbs' = NoBoxes /\ bb_log' = NoLog /\ in_step' = <<>> /\ after' = NoEntities

Next ==
    \/ NewPoint
    \/ ComparePoints
    \/ Azimuth
    \/ PointAt
    \/ EquallySpacedPoints
    \/ NewLine
    \/ LineWithDuplicate
    \/ LineWithDepths
    \/ PolygonWithDepths
    \/ NewPolygon
    \/ LineAndPolygon
    \/ GetResampledCoordinates
    \/ Resample
    \/ Discretize
    \/ \E run \in Runs : Resume(run)
    \/ Update
    \/ AggDicts
    \/ Return

Spec == Init /\ [][Next]_vars

(* The caller of a generator goes on asking for the next point until the   *)
(* generator is exhausted, and the interpreter goes on running the body.   *)
FairSpec == Spec /\ \A run \in Runs : WF_vars(Resume(run))

-----------------------------------------------------------------------------
(* Properties. *)

Last(s) == s[Len(s)]

InRange(p) ==
    /\ -MAX_LONGITUDE <= p.longitude /\ p.longitude <= MAX_LONGITUDE
    /\ -MAX_LATITUDE <= p.latitude /\ p.latitude <= MAX_LATITUDE

(* C1: Point(longitude, latitude, depth) succeeds if and only if            *)
(* -180 <= longitude <= 180 and -90 <= latitude <= 90, whatever the depth; *)
(* otherwise it raises and no Point is produced.                            *)
C1_PointRange ==
    op = "Point" =>
        /\ status = OK <=> InRange(in_pts[1])
        /\ status = OK => out_pts = <<in_pts[1]>>
        /\ status # OK => out_pts = <<>>

(* A point on both bounds is accepted, at a depth other than 0. *)
C1_Witness ==
    /\ op = "Point"
    /\ status = OK
    /\ in_pts[1].longitude = MAX_LONGITUDE
    /\ in_pts[1].latitude = -MAX_LATITUDE
    /\ in_pts[1].depth = 7

(* C2: p == q if and only if the longitudes and the latitudes differ by at *)
(* most 1e-5 and the depths by at most 1e-3; p != q is the negation of     *)
(* p == q; a Point compared with None is not equal to it.                   *)
C2_PointEquality ==
    op = "Point.__eq__" =>
        LET p == in_pts[1]
            q == in_pts[2]
        IN  /\ out_flag.ne <=> ~out_flag.eq
            /\ q = None => ~out_flag.eq
            /\ q # None =>
                (out_flag.eq <=> /\ Abs(p.longitude - q.longitude) <= 1
                                 /\ Abs(p.latitude - q.latitude) <= 1
                                 /\ Abs(p.depth - q.depth) <= 1)

(* Two points exactly one tolerance apart in every coordinate are equal. *)
C2_Witness ==
    /\ op = "Point.__eq__"
    /\ in_pts[2] # None
    /\ out_flag.eq
    /\ in_pts[1].longitude - in_pts[2].longitude = 1
    /\ in_pts[2].latitude - in_pts[1].latitude = 1
    /\ in_pts[1].depth - in_pts[2].depth = 1

SamePlace(p, q) ==
    /\ Abs(adjlon(p.longitude - q.longitude)) <= LAT_LON_TOLERANCE
    /\ Abs(p.latitude - q.latitude) <= LAT_LON_TOLERANCE
    /\ Abs(p.depth - q.depth) <= DEPTH_TOLERANCE

C4_NumberOfPoints ==
    op = "equally_spaced_points" =>
        /\ status = OK
        /\ IF Point__eq__(in_pts[1], in_pts[2])
           THEN out_pts = <<in_pts[1]>>
           ELSE LET sections == Len(out_pts) - 1
                    total == distance(in_pts[1], in_pts[2])
                IN  /\ sections >= 0
                    /\ 2 * Abs(total - sections * in_num) <= in_num

-----------------------------------------------------------------------------
(* Adjacent-duplicate removal, stated on indexes: the first point is kept, *)
(* and a later point is kept exactly when it differs from the point kept   *)
(* last before it, so that each run of duplicates leaves its first point.  *)

MaxOf(S) == CHOOSE m \in S : \A x \in S : x <= m

IsKeptSet(points, K) ==
    /\ Len(points) >= 1 => 1 \in K
    /\ \A j \in 2..Len(points) :
          j \in K <=> ~Point__eq__(points[j], points[MaxOf({k \in K : k < j})])

KeptIndexes(points) == CHOOSE K \in SUBSET (1..Len(points)) : IsKeptSet(points, K)

(* The points at the indexes K, in order. *)
Pick(points, K) ==
    LET rank == [k \in K |-> Cardinality({x \in K : x <= k})]
    IN  [r \in 1..Cardinality(K) |-> points[CHOOSE k \in K : rank[k] = r]]

LonLat(points) == [i \in 1..Len(points) |-> <<points[i].longitude, points[i].latitude>>]

(* Two non-adjacent segments of the chain (of the ring, when closed) of    *)
(* vertices xy have a common point.                                         *)
Crossing(xy, closed) ==
    LET n == Len(xy)
        segs == IF closed THEN 1..n ELSE 1..(n - 1)
        to(i) == IF i = n THEN xy[1] ELSE xy[i + 1]
        apart(i, j) == /\ j > i + 1
                       /\ ~(closed /\ i = 1 /\ j = n)
    IN  \E i \in segs, j \in segs :
            /\ apart(i, j)
            /\ SegmentsIntersect(xy[i][1], xy[i][2], to(i)[1], to(i)[2],
                                 xy[j][1], xy[j][2], to(j)[1], to(j)[2])

(* C5: in a constructed Line no two consecutive points are equal, and the  *)
(* points kept are the first points of the runs of duplicates of the       *)
(* input, in the order of the input.                                        *)
C5_NoAdjacentDuplicates ==
    op = "Line" /\ status = OK =>
        /\ \A i \in 1..(Len(out_pts) - 1) : ~Point__eq__(out_pts[i], out_pts[i + 1])
        /\ out_pts = Pick(in_pts, KeptIndexes(in_pts))

(* Four points, the second and the fourth dropped, one of them within the  *)
(* tolerance of its predecessor without being the same point.               *)
C5_Witness ==
    /\ op = "Line"
    /\ status = OK
    /\ Len(in_pts) = 4
    /\ KeptIndexes(in_pts) = {1, 3}
    /\ in_pts[2] # in_pts[1]

(* C6: when Line(s) is valid and s2 is s with one of its points repeated   *)
(* right after itself, Line(s2) is valid and Line(s) == Line(s2).           *)
C6_DuplicateInsensitive ==
    op = "Line.__eq__" /\ status = OK =>
        /\ alt_status = OK
        /\ out_flag.eq
        /\ ~out_flag.ne

(* The middle point of a line of three points is repeated. *)
C6_Witness ==
    /\ op = "Line.__eq__"
    /\ status = OK
    /\ Len(out_pts) = 3
    /\ in_num = 2
    /\ Len(alt_in) = 4
    /\ out_flag.eq

(* C7: Line raises when no point is left after cleaning, without having    *)
(* made the self-intersection test; an input that cleans to one point (a   *)
(* non-empty input of points all equal to the first) gives a Line.          *)
C7_OnePointNeeded ==
    op = "Line" =>
        /\ Cardinality(KeptIndexes(in_pts)) = 0 =>
              /\ status = ONE_POINT_NEEDED
              /\ \A i \in 1..Len(calls) : calls[i] # "line_intersects_itself"
        /\ Cardinality(KeptIndexes(in_pts)) = 1 =>
              /\ status = OK
              /\ out_pts = <<in_pts[1]>>

(* The empty list is refused. *)
C7_Witness ==
    /\ op = "Line"
    /\ in_pts = <<>>
    /\ status = ONE_POINT_NEEDED
    /\ calls = <<"clean_points">>

(* C8: a list of points whose cleaned chain has two non-adjacent segments  *)
(* with a common point (longitudes and latitudes only) gives neither a     *)
(* Line nor a Polygon but the self-intersection error; a constructed Line  *)
(* has no such segments, nor has the ring of a constructed Polygon.         *)
C8_NoSelfIntersection ==
    /\ op = "Line" =>
          /\ Crossing(LonLat(Pick(in_pts, KeptIndexes(in_pts))), FALSE) =>
                 status = LINE_INTERSECTS
          /\ status = OK => ~Crossing(LonLat(out_pts), FALSE)
    /\ op = "Polygon" =>
          /\ Crossing(LonLat(Pick(in_pts, KeptIndexes(in_pts))), FALSE) =>
                 status = PERIMETER_INTERSECTS
          /\ status = OK =>
                 ~Crossing([i \in 1..out_poly.num_points |->
                               <<out_poly.lons[i], out_poly.lats[i]>>], TRUE)

(* The last point of a line of four points lies on its first segment. *)
C8_Witness ==
    /\ op = "Line"
    /\ status = LINE_INTERSECTS
    /\ LonLat(in_pts) = << <<0, 0>>, <<0, 10>>, <<10, 10>>, <<0, 5>> >>

(* C9: two inputs of the same longitudes and latitudes, at any depths,     *)
(* that clean to the same longitudes and latitudes are both refused for    *)
(* self-intersection or both not, by Line and by Polygon.                   *)
C9_DepthIgnored ==
    /\ op = "Line (depths)" =>
          (LonLat(Pick(in_pts, KeptIndexes(in_pts)))
               = LonLat(Pick(alt_in, KeptIndexes(alt_in)))
           => (status = LINE_INTERSECTS <=> alt_status = LINE_INTERSECTS))
    /\ op = "Polygon (depths)" =>
          (LonLat(Pick(in_pts, KeptIndexes(in_pts)))
               = LonLat(Pick(alt_in, KeptIndexes(alt_in)))
           => (status = PERIMETER_INTERSECTS <=> alt_status = PERIMETER_INTERSECTS))

(* A self-intersecting line is refused at two different assignments of     *)
(* depths, one of them with points at different depths.                     *)
C9_Witness ==
    /\ op = "Line (depths)"
    /\ status = LINE_INTERSECTS
    /\ alt_status = LINE_INTERSECTS
    /\ \E i \in 1..Len(alt_in) : alt_in[i].depth # alt_in[1].depth
    /\ LonLat(Pick(in_pts, KeptIndexes(in_pts)))
           = LonLat(Pick(alt_in, KeptIndexes(alt_in)))

(* Three of the points are pairwise unequal. *)
ThreeUnique(points) ==
    \E i, j, k \in 1..Len(points) :
        /\ ~Point__eq__(points[i], points[j])
        /\ ~Point__eq__(points[i], points[k])
        /\ ~Point__eq__(points[j], points[k])

(* C10, as claimed: a constructed Polygon has three vertices that are      *)
(* pairwise unequal, and the error 'polygon must have at least 3 unique    *)
(* vertices' is raised whenever the input has fewer than three unique      *)
(* points.                                                                  *)
C10_ThreeUniqueVertices ==
    op = "Polygon" =>
        /\ status = OK =>
              ThreeUnique([i \in 1..out_poly.num_points |->
                              Pt(out_poly.lons[i], out_poly.lats[i], 0)])
        /\ ~ThreeUnique(in_pts) => status = THREE_VERTICES

-----------------------------------------------------------------------------
(* C11: a list of points whose cleaned chain is simple while the edge from *)
(* its last point to its first crosses another edge gives a Line and is    *)
(* refused by Polygon for self-intersection.                                *)
C11_ClosingEdgeTested ==
    op = "Line, Polygon" =>
        LET xy == LonLat(Pick(in_pts, KeptIndexes(in_pts)))
        IN  (Len(xy) >= 3 /\ ~Crossing(xy, FALSE) /\ Crossing(xy, TRUE)) =>
                /\ status = OK
                /\ alt_status = PERIMETER_INTERSECTS

(* The chain (0,0), (0,10), (10,0), (10,10): its closing edge crosses the  *)
(* second edge.                                                             *)
C11_Witness ==
    /\ op = "Line, Polygon"
    /\ LonLat(in_pts) = << <<0, 0>>, <<0, 10>>, <<10, 0>>, <<10, 10>> >>
    /\ status = OK
    /\ alt_status = PERIMETER_INTERSECTS

(* C12: Polygon(points) has three outcomes, decided in this order: fewer   *)
(* than three points after cleaning give the vertex-count error, and the   *)
(* intersection test is not made; else a self-intersecting ring gives the  *)
(* perimeter error; else a Polygon of the cleaned points.  No Polygon is    *)
(* returned with an error.                                                  *)
C12_PolygonOutcomes ==
    op = "Polygon" =>
        LET kept == Pick(in_pts, KeptIndexes(in_pts))
            ring == LonLat(kept)
        IN  /\ status \in {THREE_VERTICES, PERIMETER_INTERSECTS, OK}
            /\ status = THREE_VERTICES <=> Len(kept) < 3
            /\ status = THREE_VERTICES =>
                   \A i \in 1..Len(calls) : calls[i] # "line_intersects_itself"
            /\ status = PERIMETER_INTERSECTS <=>
                   (Len(kept) >= 3 /\ Crossing(ring, TRUE))
            /\ status # OK => out_poly = NoPolygon
            /\ status = OK =>
                   /\ out_poly.num_points = Len(kept)
                   /\ out_poly.lons = [i \in 1..Len(kept) |-> kept[i].longitude]
                   /\ out_poly.lats = [i \in 1..Len(kept) |-> kept[i].latitude]

(* Two points: the vertex-count error, before any intersection test. *)
C12_Witness ==
    /\ op = "Polygon"
    /\ Len(in_pts) = 2
    /\ status = THREE_VERTICES
    /\ calls = <<"clean_points">>
    /\ out_poly = NoPolygon

-----------------------------------------------------------------------------
(* C13, as claimed: every longitude _get_resampled_coordinates returns,    *)
(* of a vertex or of a point put between two vertices, lies in (-180, 180] *)
(* and every latitude in [-90, 90].                                         *)
C13_ResampledInRange ==
    op = "Polygon._get_resampled_coordinates" =>
        \A k \in 1..Len(out_coords.lons) :
            /\ -MAX_LONGITUDE < out_coords.lons[k]
            /\ out_coords.lons[k] <= MAX_LONGITUDE
            /\ -MAX_LATITUDE <= out_coords.lats[k]
            /\ out_coords.lats[k] <= MAX_LATITUDE

(* The place of vertex i + 1 (of the first vertex again, for i the number  *)
(* of vertices) in the resampled ring.                                      *)
RECURSIVE VertexPlace(_, _)
VertexPlace(poly, i) ==
    IF i = 0 THEN 1
    ELSE LET between == edge_num_points(poly, i)
         IN  VertexPlace(poly, i - 1) + (IF between > 0 THEN between ELSE 0) + 1

(* C13, amended: the ring returned holds the vertices as they are stored,  *)
(* in order and closed by the first vertex, with longitudes in [-180, 180];*)
(* every point put between two vertices has its longitude in (-180, 180];  *)
(* every latitude lies in [-90, 90].                                        *)
C13_InsertedInRange ==
    op = "Polygon._get_resampled_coordinates" =>
        LET n == out_poly.num_points
            places == {VertexPlace(out_poly, i) : i \in 0..n}
        IN  /\ Len(out_coords.lons) = VertexPlace(out_poly, n)
            /\ Len(out_coords.lats) = Len(out_coords.lons)
            /\ \A i \in 0..n :
                   /\ out_coords.lons[VertexPlace(out_poly, i)] = out_poly.lons[(i % n) + 1]
                   /\ out_coords.lats[VertexPlace(out_poly, i)] = out_poly.lats[(i % n) + 1]
            /\ \A k \in 1..Len(out_coords.lons) :
                   /\ -MAX_LONGITUDE <= out_coords.lons[k]
                   /\ out_coords.lons[k] <= MAX_LONGITUDE
                   /\ k \notin places => -MAX_LONGITUDE < out_coords.lons[k]
                   /\ -MAX_LATITUDE <= out_coords.lats[k]
                   /\ out_coords.lats[k] <= MAX_LATITUDE

(* An edge across the antimeridian is cut on it; the solver names the      *)
(* point -180 and it is returned as 180.                                    *)
C13_Witness ==
    /\ op = "Polygon._get_resampled_coordinates"
    /\ in_num = -MAX_LONGITUDE
    /\ out_poly.lons[1] = MAX_LONGITUDE - Degree
    /\ out_poly.lons[2] = Degree - MAX_LONGITUDE
    /\ Len(out_coords.lons) > 2
    /\ out_coords.lons[2] = MAX_LONGITUDE

-----------------------------------------------------------------------------
(* C14: for every constructed Polygon and every positive mesh_spacing,     *)
(* iterating discretize(mesh_spacing) terminates: once generators are      *)
(* running, each of them is eventually exhausted.                           *)
C14_DiscretizeTerminates ==
    (gens # NoGens) ~> (gens # NoGens /\ \A run \in Runs : gens[run].pc = "done")

-----------------------------------------------------------------------------
(* The place of a point on the chart of a polygon: its longitude counted   *)
(* eastward from the westmost vertex, and its latitude.                     *)
ChartPlace(poly, lon, lat) ==
    <<get_longitudinal_extent(westmost(poly.lons, 2, poly.lons[1]), lon), lat>>

ChartVertex(poly, i) == ChartPlace(poly, poly.lons[i], poly.lats[i])

(* p is on the edge from a to b: the three are aligned and p is between. *)
OnEdge(a, b, p) ==
    /\ (b[1] - a[1]) * (p[2] - a[2]) = (b[2] - a[2]) * (p[1] - a[1])
    /\ (a[1] - p[1]) * (b[1] - p[1]) + (a[2] - p[2]) * (b[2] - p[2]) <= 0

(* The half line from p to the north crosses the edge from a to b. *)
CrossesNorth(a, b, p) ==
    /\ (a[1] > p[1]) # (b[1] > p[1])
    /\ IF b[1] > a[1]
       THEN (p[2] - a[2]) * (b[1] - a[1]) < (p[1] - a[1]) * (b[2] - a[2])
       ELSE (p[2] - a[2]) * (b[1] - a[1]) > (p[1] - a[1]) * (b[2] - a[2])

OnPerimeter(poly, p) ==
    \E i \in 1..poly.num_points :
        OnEdge(ChartVertex(poly, i), ChartVertex(poly, (i % poly.num_points) + 1), p)

StrictlyInside(poly, p) ==
    /\ ~OnPerimeter(poly, p)
    /\ Cardinality({i \in 1..poly.num_points :
                       CrossesNorth(ChartVertex(poly, i),
                                    ChartVertex(poly, (i % poly.num_points) + 1), p)}) % 2 = 1

Northmost(poly) == MaxOf({poly.lats[i] : i \in 1..poly.num_points})

Southmost(poly) == -MaxOf({-poly.lats[i] : i \in 1..poly.num_points})

(* The points of the mesh of a run that is over, by rows and columns, for  *)
(* a polygon near the equator, where a step of d to the east is d units of *)
(* longitude.                                                               *)
GridPoints(poly, d) ==
    LET west == westmost(poly.lons, 2, poly.lons[1])
        east == eastmost(poly.lons, 2, poly.lons[1])
    IN  {Pt(adjlon(west + j * d), Northmost(poly) - i * d, 0) :
            i \in 0..(Northmost(poly) - Southmost(poly)),
            j \in 0..get_longitudinal_extent(west, east)}

(* C15: every point yielded by discretize is inside the polygon or on its  *)
(* perimeter, never outside, and its latitude is in (south, north]; and a  *)
(* run that is over has yielded every point of its grid that is inside     *)
(* the polygon.                                                             *)
C15_YieldedInside ==
    gens # NoGens =>
        \A run \in Runs :
            LET frame == gens[run]
                poly == frame.self
            IN  /\ \A k \in 1..Len(frame.yielded) :
                       LET point == frame.yielded[k]
                           p == ChartPlace(poly, point.longitude, point.latitude)
                       IN  /\ StrictlyInside(poly, p) \/ OnPerimeter(poly, p)
                           /\ OnPerimeter(poly, p) => frame.edge
                           /\ Southmost(poly) < point.latitude
                           /\ point.latitude <= Northmost(poly)
                /\ (frame.pc = "done" /\ Abs(Northmost(poly)) <= MAX_LATITUDE \div 2) =>
                       \A point \in GridPoints(poly, frame.mesh_spacing) :
                           StrictlyInside(poly,
                               ChartPlace(poly, point.longitude, point.latitude))
                           => \E k \in 1..Len(frame.yielded) : frame.yielded[k] = point

(* A run over the polygon with the concave corner is over: it has yielded  *)
(* the seven points inside and no point of the perimeter.                   *)
C15_Witness ==
    /\ gens # NoGens
    /\ \E run \in Runs :
          /\ gens[run].pc = "done"
          /\ gens[run].self.num_points = 6
          /\ gens[run].mesh_spacing = 1
          /\ ~gens[run].edge
          /\ Len(gens[run].yielded) = 7

-----------------------------------------------------------------------------
(* One step of a generator, from frame f to frame g, follows the order of  *)
(* the scan: the first row is at the north of the bounding box; a row      *)
(* starts at its west; within a row the latitude is kept and the           *)
(* longitude moves strictly eastward; the next row is strictly south of    *)
(* the row before; and in the points yielded so far the latitudes never    *)
(* increase and the points of one latitude go from west to east.            *)
InScanOrder(f, g) ==
    /\ f.pc = "start" => g.latitude = Northmost(f.self)
    /\ (f.pc = "row" /\ g.pc = "col") =>
           /\ g.latitude = f.latitude
           /\ g.longitude = westmost(f.self.lons, 2, f.self.lons[1])
    /\ (f.pc = "col" /\ g.pc = "col") =>
           /\ g.latitude = f.latitude
           /\ get_longitudinal_extent(f.longitude, g.longitude) > 0
    /\ (f.pc = "col" /\ g.pc = "row") => g.latitude < f.latitude
    /\ \A i \in 1..Len(g.yielded) : \A j \in (i + 1)..Len(g.yielded) :
           /\ g.yielded[i].latitude >= g.yielded[j].latitude
           /\ g.yielded[i].latitude = g.yielded[j].latitude =>
                  get_longitudinal_extent(g.yielded[i].longitude,
                                          g.yielded[j].longitude) > 0

(* C16: discretize emits points in scan order: rows from the north of the  *)
(* bounding box downward with strictly decreasing latitude, every row from *)
(* the west of the box strictly eastward at the latitude of the row, so    *)
(* that yielded latitudes never increase and points of equal latitude      *)
(* appear west to east.                                                     *)
C16_ScanOrder ==
    [][\A run \in Runs :
          (gens # NoGens /\ gens' # NoGens /\ gens'[run] # gens[run])
              => InScanOrder(gens[run], gens'[run])]_vars

-----------------------------------------------------------------------------
(* s is the beginning of t. *)
IsPrefix(s, t) == Len(s) <= Len(t) /\ \A k \in 1..Len(s) : s[k] = t[k]

-----------------------------------------------------------------------------
-----------------------------------------------------------------------------
(* The square of the distance between two points a few units apart, near   *)
(* the equator, where a unit of longitude, of latitude and of depth have   *)
(* one length.                                                              *)
SquareApart(p, q) ==
    get_longitudinal_extent(p.longitude, q.longitude)
        * get_longitudinal_extent(p.longitude, q.longitude)
    + (q.latitude - p.latitude) * (q.latitude - p.latitude)
    + (q.depth - p.depth) * (q.depth - p.depth)

(* C19: the line returned by Line.resample(section_length) starts at the   *)
(* first point of the line and every pair of consecutive points of it is   *)
(* exactly section_length apart, corners included.                          *)
C19_EvenSections ==
    (op = "Line.resample" /\ status = OK) =>
        /\ out_pts[1] = in_pts[1]
        /\ \A k \in 1..(Len(out_pts) - 1) :
               SquareApart(out_pts[k], out_pts[k + 1]) = in_num * in_num

(* The three points of a line are aligned, in order, d apart. *)
EquallySpaced(points, d) ==
    /\ Len(points) = 3
    /\ \/ \A k \in 1..3 : points[k].latitude = 0
       \/ \A k \in 1..3 : points[k].longitude = points[1].longitude
    /\ \A k \in 1..3 : points[k].depth = 0
    /\ SquareApart(points[1], points[2]) = d * d
    /\ SquareApart(points[2], points[3]) = d * d
    /\ SquareApart(points[1], points[3]) = 4 * d * d

(* C20: for three collinear points equally spaced at distance d,           *)
(* Line([p1, p2, p3]).resample(L) has exactly round(2d / L) + 1 points,    *)
(* for every d > 0 and L > 0.                                               *)
C20_CollinearCount ==
    \A d \in Gaps :
        (op = "Line.resample" /\ EquallySpaced(in_pts, d)) =>
            /\ status = OK
            /\ Len(out_pts) = round(2 * d, in_num) + 1

-----------------------------------------------------------------------------
(* C21: resampling a Line that has fewer than 2 points returns, for every  *)
(* section_length, a Line equal to the original, and equally_spaced_points *)
(* is not called.                                                           *)
C21_OnePointLineKept ==
    (op = "Line.resample" /\ Len(after.points) < 2) =>
        /\ status = OK
        /\ Line__eq__([points |-> out_pts], [points |-> after.points])
        /\ \A k \in 1..Len(calls) : calls[k] # "equally_spaced_points"

(* Two points within the tolerance are a line of one point. *)
C21_Witness ==
    /\ op = "Line.resample"
    /\ Len(in_pts) = 2
    /\ Len(after.points) = 1
    /\ in_num > 1
    /\ out_pts = <<in_pts[1]>>

-----------------------------------------------------------------------------
(* The length of a line: the sum of the distances between its points in    *)
(* turn.                                                                    *)
RECURSIVE LengthFrom(_, _)
LengthFrom(points, i) ==
    IF i >= Len(points) THEN 0
    ELSE distance(points[i], points[i + 1]) + LengthFrom(points, i + 1)

(* A straight line: its points are on one meridian or on the equator, each *)
(* beyond the one before in one direction, all at one depth.                *)
Straight(points) ==
    /\ Len(points) >= 2
    /\ \A i \in 1..Len(points) : points[i].depth = points[1].depth
    /\ \E az \in {0, 90, 180, 270} :
          \A i \in 1..(Len(points) - 1) :
            /\ GeodDefined(points[i].longitude, points[i].latitude,
                           points[i + 1].longitude, points[i + 1].latitude)
            /\ distance(points[i], points[i + 1]) > 0
            /\ azimuth(points[i], points[i + 1]) = az

(* C22: for a straight line, the length of Line.resample(section_length)   *)
(* differs from the length of the original line by at most half of         *)
(* section_length, whatever the number of original vertices.                *)
C22_StraightLengthKept ==
    (op = "Line.resample" /\ status = OK /\ Straight(after.points)) =>
        2 * Abs(LengthFrom(out_pts, 1) - LengthFrom(after.points, 1)) <= in_num

-----------------------------------------------------------------------------
(* Orders of azimuths. *)
AzLess(a, b) == a.deg < b.deg \/ (a.deg = b.deg /\ a.eps < b.eps)

(* C23: for all pairs of valid points, Point.azimuth returns a value in    *)
(* [0, 360): a negative forward azimuth of the solver has 360 added, a     *)
(* non-negative one is returned unchanged, and the result is never 360 or  *)
(* more.                                                                    *)
C23_AzimuthRange ==
    op = "Point.azimuth" =>
        /\ ~IsNegative(out_az.returned)
        /\ AzLess(out_az.returned, Az(360, 0))
        /\ IsNegative(out_az.forward) =>
               out_az.returned = Add360(out_az.forward)
        /\ ~IsNegative(out_az.forward) => out_az.returned = out_az.forward

-----------------------------------------------------------------------------
(* A rectangular polygon: four vertices, on two meridians and on two       *)
(* parallels in turn.                                                       *)
IsRectangle(poly) ==
    /\ poly.num_points = 4
    /\ poly.lats[1] = poly.lats[2] /\ poly.lons[2] = poly.lons[3]
    /\ poly.lats[3] = poly.lats[4] /\ poly.lons[4] = poly.lons[1]
    /\ poly.lats[1] # poly.lats[3] /\ poly.lons[1] # poly.lons[2]

(* One step of a generator, from frame f to frame g, keeps the mesh        *)
(* uniform: two points yielded one after the other are in one row, the     *)
(* second where one step of the mesh spacing due east of the first         *)
(* arrives, or in two rows; and the row that follows a row is at the mesh  *)
(* spacing from it along the meridian of the west side.                     *)
UniformStep(f, g) ==
    /\ \A i \in 1..(Len(g.yielded) - 1) :
           g.yielded[i + 1].latitude = g.yielded[i].latitude =>
               g.yielded[i + 1].longitude =
                   GEOD_fwd(g.yielded[i].longitude, g.yielded[i].latitude,
                            90, g.mesh_spacing).lon
    /\ (f.pc = "col" /\ g.pc = "row") =>
           horizontal_distance(Pt(f.west, f.latitude, 0), Pt(f.west, g.latitude, 0))
               = f.mesh_spacing

(* C24: for a rectangular polygon and mesh spacing M, two points that      *)
(* discretize yields consecutively in the same row are exactly one         *)
(* geodesic step of M apart, and consecutive rows are exactly M apart      *)
(* along the meridian through the west edge of the bounding box.            *)
C24_UniformMesh ==
    [][\A run \in Runs :
          (gens # NoGens /\ gens' # NoGens /\ gens'[run] # gens[run]
             /\ IsRectangle(gens[run].self))
              => UniformStep(gens[run], gens'[run])]_vars

-----------------------------------------------------------------------------
(* C25: p.point_at(horizontal_distance, vertical_increment, azimuth)       *)
(* returns a Point whose depth is p.depth + vertical_increment, deeper for *)
(* a positive increment and shallower for a negative one, and whose        *)
(* longitude and latitude do not depend on the depth or on the vertical    *)
(* increment: the same step from the same place at another depth, with     *)
(* another increment, arrives at the same longitude and latitude.           *)
C25_DepthAdded ==
    op = "Point.point_at" =>
        /\ status = OK /\ alt_status = OK
        /\ out_pts[1].depth = in_pts[1].depth + in_step[1].vertical_increment
        /\ alt_pts[1].depth = alt_in[1].depth + in_step[2].vertical_increment
        /\ in_step[1].vertical_increment > 0 => out_pts[1].depth > in_pts[1].depth
        /\ in_step[1].vertical_increment < 0 => out_pts[1].depth < in_pts[1].depth
        /\ out_pts[1].longitude = alt_pts[1].longitude
        /\ out_pts[1].latitude = alt_pts[1].latitude

(* A step of 3 due north from two units south of the pole, 5 upward from   *)
(* depth 5, and the same step 5 downward from the surface: both arrive     *)
(* one unit south of the pole on the opposite meridian.                     *)
C25_Witness ==
    /\ op = "Point.point_at"
    /\ in_pts = <<Pt(0, MAX_LATITUDE - 2, 5)>>
    /\ in_step[1] = [horizontal_distance |-> 3, vertical_increment |-> -5,
                     azimuth |-> 0]
    /\ alt_in = <<Pt(0, MAX_LATITUDE - 2, 0)>>
    /\ in_step[2].vertical_increment = 5
    /\ out_pts = <<Pt(MAX_LONGITUDE, MAX_LATITUDE - 1, 0)>>
    /\ alt_pts = <<Pt(MAX_LONGITUDE, MAX_LATITUDE - 1, 5)>>

-----------------------------------------------------------------------------
(* The places of the sequence want are met in this order, not              *)
(* necessarily next to each other, in the ring from index k on.            *)
RECURSIVE AppearInOrder(_, _, _)
AppearInOrder(ring, k, want) ==
    IF want = <<>> THEN TRUE
    ELSE IF k > Len(ring.lons) THEN FALSE
    ELSE IF <<ring.lons[k], ring.lats[k]>> = Head(want)
    THEN AppearInOrder(ring, k + 1, Tail(want))
    ELSE AppearInOrder(ring, k + 1, want)

(* C26: the vertex sequence _get_resampled_coordinates returns is a closed *)
(* ring: as many longitudes as latitudes, the first element and the last   *)
(* are both the first vertex of the polygon, and the vertices of the       *)
(* polygon appear in it in their cyclic order.                              *)
C26_ClosedRing ==
    op = "Polygon._get_resampled_coordinates" =>
        LET n == out_poly.num_points
            last == Len(out_coords.lons)
            vertices == [i \in 1..(n + 1) |->
                            <<out_poly.lons[((i - 1) % n) + 1],
                              out_poly.lats[((i - 1) % n) + 1]>>]
        IN  /\ Len(out_coords.lats) = last
            /\ last > n
            /\ out_coords.lons[1] = out_poly.lons[1]
            /\ out_coords.lats[1] = out_poly.lats[1]
            /\ out_coords.lons[last] = out_poly.lons[1]
            /\ out_coords.lats[last] = out_poly.lats[1]
            /\ AppearInOrder(out_coords, 1, vertices)

(* A triangle with one edge two degrees long: a point is put in the middle *)
(* of that edge and the ring has five points.                               *)
C26_Witness ==
    /\ op = "Polygon._get_resampled_coordinates"
    /\ out_poly.num_points = 3
    /\ Len(out_coords.lons) = 5
    /\ out_coords.lons[5] = out_coords.lons[1]
    /\ out_coords.lats[5] = out_coords.lats[1]

-----------------------------------------------------------------------------
(* floor(e) for the edge from vertex i to the next (the closing edge for   *)
(* the last vertex): e is the difference of the two longitudes taken the   *)
(* short way round, in degrees.                                             *)
WholeDegrees(poly, i) ==
    LET d == Abs(poly.lons[(i % poly.num_points) + 1] - poly.lons[i])
        e == IF d > MAX_LONGITUDE THEN 2 * MAX_LONGITUDE - d ELSE d
    IN  e \div Degree

(* max(floor(e) - 1, 0) *)
Intermediate(poly, i) ==
    IF WholeDegrees(poly, i) - 1 > 0 THEN WholeDegrees(poly, i) - 1 ELSE 0

(* 1 + the sum over the first i edges of max(floor(e) - 1, 0) + 1 *)
RECURSIVE PointsUpTo(_, _)
PointsUpTo(poly, i) ==
    IF i = 0 THEN 1 ELSE PointsUpTo(poly, i - 1) + Intermediate(poly, i) + 1

(* C27: for every edge of a polygon, the closing edge included, with       *)
(* longitudinal extent e degrees, _get_resampled_coordinates puts          *)
(* max(floor(e) - 1, 0) points before the end of the edge and always       *)
(* appends the end of the edge, so the result has                          *)
(* 1 + sum over the edges of (max(floor(e) - 1, 0) + 1) points, and an edge *)
(* with e < 2 gets no intermediate point.                                   *)
C27_InsertedCount ==
    op = "Polygon._get_resampled_coordinates" =>
        LET n == out_poly.num_points
        IN  /\ Len(out_coords.lons) = PointsUpTo(out_poly, n)
            /\ \A i \in 1..n :
                   /\ out_coords.lons[PointsUpTo(out_poly, i)]
                          = out_poly.lons[(i % n) + 1]
                   /\ out_coords.lats[PointsUpTo(out_poly, i)]
                          = out_poly.lats[(i % n) + 1]
                   /\ WholeDegrees(out_poly, i) < 2 =>
                          PointsUpTo(out_poly, i) = PointsUpTo(out_poly, i - 1) + 1

(* A triangle across the antimeridian with an edge of three degrees, which *)
(* gets two points, and two edges of a degree and a half, which get none.  *)
C27_Witness ==
    /\ op = "Polygon._get_resampled_coordinates"
    /\ out_poly.num_points = 3
    /\ WholeDegrees(out_poly, 1) = 3
    /\ WholeDegrees(out_poly, 2) = 1
    /\ WholeDegrees(out_poly, 3) = 1
    /\ Len(out_coords.lons) = 6

-----------------------------------------------------------------------------
(* C28: in equally_spaced_points the vertical step is negated exactly when *)
(* self.depth > other.depth, so the depths of the returned points change   *)
(* monotonically from self.depth toward other.depth in equal steps of      *)
(* spacing * sin(bearing_angle), which is spacing * |depth difference| /   *)
(* total distance, and never move away from the depth of the destination.  *)
C28_DepthsTowardDestination ==
    (op = "equally_spaced_points" /\ status = OK) =>
        LET self == in_pts[1]
            other == in_pts[2]
            step == IF Len(out_pts) > 1
                    THEN (in_num * Abs(other.depth - self.depth))
                             \div distance(self, other)
                    ELSE 0
        IN  /\ out_pts[1].depth = self.depth
            /\ \A k \in 1..(Len(out_pts) - 1) :
                   /\ out_pts[k + 1].depth - out_pts[k].depth =
                          (IF self.depth > other.depth THEN -step ELSE step)
                   /\ Abs(out_pts[k + 1].depth - other.depth)
                          <= Abs(out_pts[k].depth - other.depth)

(* Straight up from depth 8 to depth 4 in steps of 1. *)
C28_Witness ==
    /\ op = "equally_spaced_points"
    /\ status = OK
    /\ in_num = 1
    /\ in_pts[1].depth = 8 /\ in_pts[2].depth = 4
    /\ in_pts[1].latitude = in_pts[2].latitude
    /\ in_pts[1].longitude = in_pts[2].longitude
    /\ [k \in 1..Len(out_pts) |-> out_pts[k].depth] = <<8, 7, 6, 5, 4>>

-----------------------------------------------------------------------------
(* C29: equally_spaced_points never divides by a zero total distance: for  *)
(* every pair of valid points that is not equal under Point equality the   *)
(* total distance is strictly positive and the call completes with a list  *)
(* of points, pairs that denote one location by different coordinates      *)
(* (longitude 180 and -180) included.                                      *)
C29_NeverDividesByZero ==
    (op = "equally_spaced_points" /\ ~Point__eq__(in_pts[1], in_pts[2])) =>
        /\ distance(in_pts[1], in_pts[2]) > 0
        /\ status = OK
        /\ Len(out_pts) >= 1

-----------------------------------------------------------------------------
(* C30: the disaggregation BoundingBox only ever grows. A box that was     *)
(* given data by update, or a non-empty box by update_bb, is truthy, has   *)
(* min_dist <= max_dist, contains every distance given to it before and    *)
(* the range of every non-empty box merged into it, and never lost what it *)
(* held before the last call; update_bb with an empty box leaves every     *)
(* field as it was; a box that was given nothing has None in every field.  *)
Fields == {"min_dist", "max_dist", "east", "west", "south", "north"}

C30_BoxOnlyGrows ==
    /\ \A b \in Boxes :
        IF bb_log.passed[b] = {}
        THEN /\ ~BoundingBox__nonzero__(bbs[b])
             /\ \A f \in Fields : bbs[b][f] = None
        ELSE /\ BoundingBox__nonzero__(bbs[b])
             /\ bbs[b].min_dist[1] <= bbs[b].max_dist[1]
             /\ \A d \in bb_log.passed[b] :
                    bbs[b].min_dist[1] <= d /\ d <= bbs[b].max_dist[1]
             /\ BoundingBox__nonzero__(bb_log.before[b]) =>
                    /\ bbs[b].min_dist[1] <= bb_log.before[b].min_dist[1]
                    /\ bb_log.before[b].max_dist[1] <= bbs[b].max_dist[1]
    /\ (op = "agg_dicts" /\ ~BoundingBox__nonzero__(bb_log.before["val"])) =>
           status = OK /\ bbs = bb_log.before

(* A box holding the distance 5 alone has taken in a box from 2 to 8. *)
C30_Witness ==
    /\ op = "agg_dicts"
    /\ bb_log.before["acc"].min_dist = <<5>>
    /\ bb_log.before["acc"].max_dist = <<5>>
    /\ bb_log.before["val"].min_dist = <<2>>
    /\ bb_log.before["val"].max_dist = <<8>>
    /\ bbs["acc"].min_dist = <<2>> /\ bbs["acc"].max_dist = <<8>>

====
